---- MODULE Spec2Model ----
(***************************************************************************)
(* Model of one agent process of the threshold-FHE Mafia game              *)
(* (src/src/player.py and the modules it calls) together with the          *)
(* environment that drives it: the host that sends requests, the decision  *)
(* source (the LLM runner) that calls the action tools, and the peers that *)
(* answer or fail to answer partial-decryption requests.                   *)
(*                                                                         *)
(* The process keeps one module-level AgentState (player.py:83-117); the   *)
(* variables below are its fields, followed by the position of the         *)
(* request_action handler and by history variables that record what the    *)
(* process has sent and answered in the current round.                     *)
(*                                                                         *)
(* The host is taken to follow the protocol order of the game: the roster  *)
(* is distributed and the role revealed before the first action round, and *)
(* one request_action is in flight at a time.  The decision source is      *)
(* unconstrained: during a Runner.run call it may call the installed       *)
(* action tool any number of times with any integer, and the call may      *)
(* return, fail with conversation_lock_failed, or raise another error.     *)
(* A peer may answer a partial-decryption request or fail to.  Fields of   *)
(* AgentState that no modelled handler reads for a decision (the turn      *)
(* counter, the chat history, the notes and the event log) are left out.   *)
(*                                                                         *)
(* The specifications share the variables:                                 *)
(*   Spec          the request_action rounds of one agent process;         *)
(*   RelaySpec     one /relay_decrypt request travelling through the hops  *)
(*                 of its chain, every hop running the same handler;       *)
(*   EndpointSpec  one agent process from its start, with a host that may  *)
(*                 send any set-up or share request at any time;           *)
(*   DkgSpec       the /dkg_round calls of one key-generation run over all *)
(*                 parties;                                                *)
(*   OverlapSpec   one agent process that receives a second request_action *)
(*                 or a /chat/phase request while a first request_action   *)
(*                 waits for the decision source;                          *)
(*   ToolCallsSpec the action rounds with two tool calls of one response   *)
(*                 running concurrently;                                   *)
(*   ChatSpec      the background chat task and the requests that cancel   *)
(*                 and replace it;                                         *)
(*   NotesSpec     the suspicion notes of one agent process;               *)
(*   LobbySpec     the lobby process that spawns and stops agent           *)
(*                 processes (src/lobby.py).                               *)
(* Each leaves the variables of the others at their initial values.        *)
(*                                                                         *)
(* Optional values (Optional[int] and the like) are sequences of length    *)
(* at most one: <<>> is None and <<v>> is the value v.                     *)
(***************************************************************************)
EXTENDS Integers, Sequences, FiniteSets

\* ------------------------------------------------------------------ bounds
NumPlayers == 3

\* ------------------------------------------------------- program constants
NUM_ROLE_TYPES == 4
max_lock_retries == 3

Parties == 0 .. (NumPlayers - 1)
\* Party 0 is the human player on port 9000; agents listen on 8764 + i.
Agents == 1 .. (NumPlayers - 1)
Roles == {"citizen", "mafia", "doctor", "police"}
Phases == {"vote", "night", "chat", "day", "other"}
\* Targets a decision source may pass to a tool, out-of-range values included.
ToolTargets == (0 - 1) .. NumPlayers

None == <<>>
Some(v) == <<v>>

JointKey == "jpk"

VARIABLES
    roster,                 \* the true role of every party (the encrypted roster's plaintext)
    player_index,           \* state.player_index
    role,                   \* state.role ("none" before the reveal)
    alive,                  \* state.alive
    current_phase,          \* state.current_phase
    pending_action_target,  \* state.pending_action_target
    action_submitted,       \* state.action_submitted
    joint_public_key,       \* state.joint_public_key
    all_encrypted_roles,    \* state.all_encrypted_roles
    my_encrypted_role,      \* state.my_encrypted_role
    pc,                     \* position of the request_action handler
    request,                \* phase of the request being handled
    request_survivors,      \* history: the survivors list of the last request_action
    attempt,                \* loop variable of the lock-retry loops
    tools,                  \* action tools installed in state.agent.tools
    inv,                    \* the investigation in progress
    response,               \* the answer to the last request_action
    first_call,             \* history: the first action-tool call of this round
    accepted,               \* history: the target a tool accepted in this round
    forced_abstain,         \* history: the reminder's except branch ran
    sent_investigate,       \* history: peers sent an /investigate_parallel request
    decoy_task,             \* a send_dummy_investigation_packets task is pending
    fused,                  \* history: the share list of the last fusion
    rl_ct,                  \* relay: the ciphertext of the relay request
    rl_first,               \* relay: the party the requester sends the request to
    rl_order,               \* relay: the remaining_order the requester sends
    rl_requests,            \* relay: /relay_decrypt requests in flight
    rl_frames,              \* relay: the relay_decrypt handlers started so far
    rl_responses,           \* relay: responses in flight
    rl_result,              \* relay: what the requester has received
    rl_fusions,             \* relay history: the fusions computed, and by whom
    rl_failed,              \* relay history: a hop was unreachable or failed
    game_id,                \* state.game_id
    cc,                     \* state.cc, the crypto context
    keypair,                \* state.keypair
    endpoint_response,      \* history: the last answer of a set-up or share endpoint
    round_begun,            \* history: a request_action has been received
    eval_mult_keys,         \* the parties whose multiplication-key fragment state.cc holds
    dkg_keys,               \* key generation: the keypair of every party
    dkg_log,                \* key generation history: the /dkg_round calls, in order
    dkg_view,               \* key generation: every party's joint public key
    handlers,               \* overlapping requests: the request_action handlers in progress
    calls,                  \* concurrent tool calls: the police_investigate calls of this round
    chat_task,              \* state.chat_task, the task request_action would cancel
    chat_tasks,             \* chat: every run_chat_loop task created so far
    chat_handlers,          \* chat: the request_action handlers in progress
    notes,                  \* state.suspicion_notes.notes, once the manager exists
    spawned_agents,         \* lobby: the module-level dict spawned_agents
    processes,              \* lobby: the ports of the agent processes that run
    lobby_response          \* lobby history: the answer to the last lobby request

stateVars == <<player_index, role, alive, current_phase,
               pending_action_target, action_submitted, joint_public_key,
               all_encrypted_roles, my_encrypted_role>>
roundVars == <<pc, request, request_survivors, attempt, tools, inv, response,
               first_call, accepted, forced_abstain, sent_investigate, decoy_task, fused>>
relayVars == <<rl_ct, rl_first, rl_order, rl_requests, rl_frames, rl_responses,
               rl_result, rl_fusions, rl_failed>>
\* The variables the request_action handler and its tools never touch.
setupVars == <<game_id, cc, keypair, endpoint_response, round_begun, eval_mult_keys>>
dkgVars == <<dkg_keys, dkg_log, dkg_view>>
overlapVars == <<handlers>>
callVars == <<calls>>
\* The variables of the side components.
chatVars == <<chat_task, chat_tasks, chat_handlers>>
noteVars == <<notes>>
lobbyVars == <<spawned_agents, processes, lobby_response>>
sideVars == <<callVars, chatVars, noteVars, lobbyVars>>
otherVars == <<relayVars, setupVars, dkgVars, overlapVars, sideVars>>
vars == <<roster, stateVars, roundVars, otherVars>>

\* ------------------------------------------------ FHE capability (external)
\* A ciphertext is its key and its plaintext; the library is not under src/.
Encrypt(pk, pt) == [pk |-> pk, pt |-> pt]

ZeroPlain(n) == [i \in 1 .. n |-> 0]
OneHotPlain(n, idx) == [i \in 1 .. n |-> IF i = idx + 1 THEN 1 ELSE 0]

create_zero_vector(n, pk) == Encrypt(pk, ZeroPlain(n))
create_one_hot_vector(n, idx, pk) == Encrypt(pk, OneHotPlain(n, idx))

serialize_ciphertext(ct) == [b64 |-> ct]
deserialize_ciphertext(s) == s.b64

RECURSIVE SumTo(_, _)
SumTo(v, k) == IF k = 0 THEN 0 ELSE v[k] + SumTo(v, k - 1)

IsZeroPlain(v) == \A i \in DOMAIN v : v[i] = 0
IsOneHotPlain(v) == \E i \in DOMAIN v : v[i] = 1 /\ \A j \in DOMAIN v : j # i => v[j] = 0

ROLE_ENCODING(r) ==
    CASE r = "citizen" -> 0
      [] r = "mafia" -> 1
      [] r = "doctor" -> 2
      [] r = "police" -> 3

one_hot_to_role(v) == CHOOSE r \in Roles : v[ROLE_ENCODING(r) + 1] = 1

\* EvalMult of a ciphertext by a plaintext vector, slot by slot.
homomorphic_dot_product(ct, vec) ==
    Encrypt(ct.pk, [i \in DOMAIN ct.pt |-> ct.pt[i] * vec[i]])

partial_decrypt_lead(ct, party) == [ct |-> ct, by |-> party, lead |-> TRUE]
partial_decrypt_main(ct, party) == [ct |-> ct, by |-> party, lead |-> FALSE]

Range(s) == {s[i] : i \in DOMAIN s}

\* A share list decrypts when it holds one share of every party, all of the
\* same ciphertext, exactly one of them the lead share.
CompleteShares(shares) ==
    /\ Len(shares) = NumPlayers
    /\ {sh.by : sh \in Range(shares)} = Parties
    /\ \A sh \in Range(shares) : sh.ct = shares[1].ct
    /\ Cardinality({i \in DOMAIN shares : shares[i].lead}) = 1

\* What a fusion of an incomplete list may yield: noise.
GarbagePlain(n) == {ZeroPlain(n), [i \in 1 .. n |-> 1]}

\* The plaintexts a fusion may return.
fusion_decrypt(shares) ==
    IF CompleteShares(shares)
    THEN {shares[1].ct.pt}
    ELSE GarbagePlain(Len(shares[1].ct.pt))

\* ------------------------------------------------------------ action tools
\* The action tools create_agent_tools installs for a phase.
create_agent_tools(phase, r) ==
    CASE phase = "vote" -> {"submit_vote"}
      [] phase = "night" /\ r = "mafia" -> {"mafia_kill"}
      [] phase = "night" /\ r = "doctor" -> {"doctor_heal"}
      [] phase = "night" /\ r = "police" -> {"police_investigate"}
      [] OTHER -> {}

\* The target checks of the four action tools.
submit_vote_accepts(t) == 0 <= t /\ t < NumPlayers /\ t # player_index
mafia_kill_accepts_self(t) == 0 <= t /\ t < NumPlayers
mafia_kill_accepts(t) == 0 <= t /\ t < NumPlayers /\ t # player_index
doctor_heal_accepts(t) == 0 <= t /\ t < NumPlayers
police_investigate_accepts(t) == 0 <= t /\ t < NumPlayers /\ t # player_index

\* ------------------------------------------------------- vector generation
Triple(v, a, h) == [vote |-> v, attack |-> a, heal |-> h]

ZeroB64 == serialize_ciphertext(create_zero_vector(NumPlayers, joint_public_key))
OneHotB64(t) == serialize_ciphertext(create_one_hot_vector(NumPlayers, t, joint_public_key))

generate_vote_vector(target) ==
    IF target # None /\ target[1] >= 0
    THEN Triple(OneHotB64(target[1]), ZeroB64, ZeroB64)
    ELSE Triple(ZeroB64, ZeroB64, ZeroB64)

\* Fault variant: the target read as a 1-based index.
_generate_night_vectors_shifted(target_index) == OneHotB64(target_index + 1)

_generate_night_vectors(target_index) == OneHotB64(target_index)

\* Fault variant: the night target also copied into the vote vector.
generate_night_work_vectors_vote(r, phase, target) ==
    IF phase = "night" /\ r \in {"mafia", "doctor"} /\ target # None
    THEN Triple(OneHotB64(target[1]),
                IF r = "mafia" THEN OneHotB64(target[1]) ELSE ZeroB64,
                IF r = "doctor" THEN OneHotB64(target[1]) ELSE ZeroB64)
    ELSE Triple(ZeroB64, ZeroB64, ZeroB64)

\* Fault variant: the attack branch taken without the role test.
generate_night_work_vectors_norole(r, phase, target) ==
    IF phase = "night" /\ target # None
    THEN Triple(ZeroB64, OneHotB64(target[1]), ZeroB64)
    ELSE Triple(ZeroB64, ZeroB64, ZeroB64)

generate_night_work_vectors(r, phase, target) ==
    IF phase = "vote" THEN generate_vote_vector(target)
    ELSE IF phase = "night" /\ r = "mafia" /\ target # None
         THEN Triple(ZeroB64, _generate_night_vectors(target[1]), ZeroB64)
    ELSE IF phase = "night" /\ r = "doctor" /\ target # None
         THEN Triple(ZeroB64, ZeroB64, _generate_night_vectors(target[1]))
    ELSE Triple(ZeroB64, ZeroB64, ZeroB64)

\* The vectors handle_vote_phase builds from state.pending_action_target.
handle_vote_phase_vectors(target) ==
    IF target # None /\ target[1] >= 0
    THEN Triple(OneHotB64(target[1]), ZeroB64, ZeroB64)
    ELSE Triple(ZeroB64, ZeroB64, ZeroB64)

\* The vectors of the dead-player branch, of handle_chat_phase and of the
\* unknown-phase branch: one zero vector, three times.
\* Fault variant: the dead player's vector sized by the role count.
dead_player_vectors_roles ==
    LET z == serialize_ciphertext(create_zero_vector(NUM_ROLE_TYPES, joint_public_key))
    IN Triple(z, z, z)

dead_player_vectors == Triple(ZeroB64, ZeroB64, ZeroB64)
handle_chat_phase_vectors == Triple(ZeroB64, ZeroB64, ZeroB64)
unknown_phase_vectors == Triple(ZeroB64, ZeroB64, ZeroB64)

ActionResponse(tr, phase) ==
    [kind |-> "triple", vote |-> tr.vote, attack |-> tr.attack,
     heal |-> tr.heal, phase |-> phase]
HTTPException == [kind |-> "error"]
NoResponse == [kind |-> "none"]

\* The triple request_action returns once the decision source is done.
PhaseVectors(phase, target) ==
    IF phase = "vote" THEN handle_vote_phase_vectors(target)
    ELSE generate_night_work_vectors(role, phase, target)

\* ---------------------------------------------------------------- set-up
EncryptedRoster ==
    [i \in 1 .. NumPlayers |->
        serialize_ciphertext(
            Encrypt(JointKey, OneHotPlain(NUM_ROLE_TYPES, ROLE_ENCODING(roster[i - 1]))))]

Others == Parties \ {player_index}

\* The survivors lists of a request: with the process's own index, or without.
SurvivorLists == {Parties, Others}

InvIdle == [st |-> "idle", target |-> None, replies |-> [q \in Others |-> "idle"],
            result |-> None]

\* No key-generation run is being followed.
DkgIdle ==
    /\ dkg_keys = [p \in Parties |-> None]
    /\ dkg_log = <<>>
    /\ dkg_view = [p \in Parties |-> None]

\* The two request_action handlers a process may have in progress at once.
Slots == {1, 2}

IdleHandler == [st |-> "idle", phase |-> "none", decided |-> None,
                response |-> [kind |-> "none"], alone |-> TRUE]

\* No request_action is in progress.
HandlersIdle == handlers = [h \in Slots |-> IdleHandler]

\* The tool calls one decision-source response may hold: the tool calls of
\* one response run as tasks of one event loop, side by side.
CallSlots == {1, 2}

IdleCall == [st |-> "idle", target |-> None]

\* No tool call has been made in this round.
CallsIdle == calls = [c \in CallSlots |-> IdleCall]

\* A note of the suspicion note manager.
SuspicionNote(level, is_confirmed) ==
    [level |-> level, is_confirmed |-> is_confirmed, is_dead |-> FALSE]

\* SuspicionNoteManager.__init__: every other player is UNKNOWN.
NotesBlank == notes = [t \in Others |-> SuspicionNote("unknown", FALSE)]

\* The lobby process (src/lobby.py).  At most MaxAgents agents are tracked
\* at a time and the machine has MaxPorts ports to hand out.
MaxAgents == 3
MaxPorts == 4
AgentIds == 1 .. MaxAgents
LobbyPorts == 1 .. MaxPorts

\* lobby.py:19: spawned_agents = {}; no agent process runs.
LobbyEmpty ==
    /\ spawned_agents = << >>
    /\ processes = {}
    /\ lobby_response = [kind |-> "none"]

\* mark_player_dead
mark_player_dead(n, p) ==
    IF p \in DOMAIN n THEN [n EXCEPT ![p].is_dead = TRUE] ELSE n

\* request_action: every player missing from the survivors list, the
\* process's own index apart, is marked dead in the notes.
MarkDeadPlayers(n, survivors) ==
    [t \in DOMAIN n |-> IF t \notin survivors THEN mark_player_dead(n, t)[t] ELSE n[t]]

\* The request_action handlers that may be in progress at once where the
\* chat task is followed, and the number of chat tasks followed.
ChatSlots == {1, 2, 3}
MaxChatTasks == 4
ChatTaskIds == 1 .. MaxChatTasks

\* waiters: the handlers awaiting the task, in the order they began to wait;
\* told (history): the phase has left chat and day since the task was created.
UnbornTask == [st |-> "unborn", cancel |-> FALSE, time_up |-> FALSE, told |-> FALSE,
               waiters |-> <<>>]
\* A task that has ended, with the handlers still to be woken.
EndedTask(waiters) == [UnbornTask EXCEPT !.st = "done", !.waiters = waiters]
IdleChatHandler == [st |-> "idle", phase |-> "none", survivors |-> {}, task |-> 0]

\* self.chat_task = None, and no request_action is in progress.
ChatIdle ==
    /\ chat_task = None
    /\ chat_tasks = [k \in ChatTaskIds |-> UnbornTask]
    /\ chat_handlers = [h \in ChatSlots |-> IdleChatHandler]

\* No relay request has been made.
RelayIdle ==
    /\ rl_ct = None
    /\ rl_first = None
    /\ rl_order = <<>>
    /\ rl_requests = {}
    /\ rl_frames = <<>>
    /\ rl_responses = {}
    /\ rl_result = None
    /\ rl_fusions = {}
    /\ rl_failed = FALSE

\* Key generation of the FHE capability: a public key names the parties
\* whose secret keys it joins, in join order.
SecretKey(p) == [kind |-> "secret_key", of |-> p]
PublicKey(chain) == [kind |-> "public_key", chain |-> chain]
dkg_keygen_lead(p) == [secretKey |-> SecretKey(p), publicKey |-> PublicKey(<<p>>)]
dkg_keygen_join(prev_pk, p) ==
    [secretKey |-> SecretKey(p), publicKey |-> PublicKey(Append(prev_pk.chain, p))]
serialize_public_key(pk) == [b64 |-> pk]
deserialize_public_key(s) == s.b64

\* The public key after the parties 0 .. p have joined in index order.
JoinedKey(p) == PublicKey([i \in 1 .. (p + 1) |-> i - 1])

NoEndpointResponse ==
    [endpoint |-> "none", status |-> 0, kind |-> "none", val |-> <<>>, about |-> None]

\* The set-up fields once key generation and /init are done.
EndpointsReady ==
    /\ game_id = Some("g1")
    /\ cc = Some("cc")
    /\ keypair = Some(IF player_index = 0 THEN dkg_keygen_lead(0)
                      ELSE dkg_keygen_join(JoinedKey(player_index - 1), player_index))
    /\ endpoint_response = NoEndpointResponse
    /\ round_begun = FALSE
    /\ eval_mult_keys = Parties

\* The process after /dkg_setup, the DKG rounds and /init: it holds its key
\* share and the joint public key, and waits for the encrypted roster.
Init ==
    /\ roster \in [Parties -> Roles]
    /\ player_index \in Agents
    /\ role = "none"
    /\ alive = TRUE
    /\ current_phase = "setup"
    /\ pending_action_target = None
    /\ action_submitted = FALSE
    /\ joint_public_key = JointKey
    /\ all_encrypted_roles = <<>>
    /\ my_encrypted_role = None
    /\ pc = "idle"
    /\ request = "none"
    /\ request_survivors = Parties
    /\ attempt = 0
    /\ tools = {}
    /\ inv = InvIdle
    /\ response = NoResponse
    /\ first_call = None
    /\ accepted = None
    /\ forced_abstain = FALSE
    /\ sent_investigate = {}
    /\ decoy_task = FALSE
    /\ fused = None
    /\ RelayIdle
    /\ EndpointsReady
    /\ DkgIdle
    /\ HandlersIdle
    /\ CallsIdle
    /\ ChatIdle
    /\ NotesBlank
    /\ LobbyEmpty

\* /blind_role_assignment: store the roster and the process's own ciphertext.
BlindRoleAssignment ==
    /\ pc = "idle"
    /\ all_encrypted_roles = <<>>
    /\ joint_public_key' = JointKey
    /\ all_encrypted_roles' = EncryptedRoster
    /\ my_encrypted_role' = Some(EncryptedRoster[player_index + 1])
    /\ UNCHANGED <<otherVars, roster, player_index, role, alive, current_phase,
                   pending_action_target, action_submitted, roundVars>>

\* The shares the host collects for the owner's ciphertext: one of every other
\* party, party 0 contributing the lead share.
HostPartials(ct) ==
    LET F[i \in 0 .. NumPlayers] ==
            IF i = 0 THEN <<>>
            ELSE IF i - 1 = player_index THEN F[i - 1]
            ELSE Append(F[i - 1],
                        IF i - 1 = 0 THEN partial_decrypt_lead(ct, 0)
                        ELSE partial_decrypt_main(ct, i - 1))
    IN F[NumPlayers]

\* The share list complete_role_decryption fuses: the received ones, then its own.
RoleDecryptionShares(received) ==
    Append(received,
           partial_decrypt_main(deserialize_ciphertext(my_encrypted_role[1]), player_index))

\* /complete_role_decryption
CompleteRoleDecryption ==
    /\ pc = "idle"
    /\ my_encrypted_role # None
    /\ role = "none"
    /\ LET partial_results ==
               RoleDecryptionShares(HostPartials(deserialize_ciphertext(my_encrypted_role[1])))
       IN /\ \E pt \in fusion_decrypt(partial_results) :
                 role' = one_hot_to_role(SubSeq(pt, 1, NUM_ROLE_TYPES))
          /\ fused' = Some(partial_results)
    /\ UNCHANGED <<otherVars, roster, player_index, alive, current_phase,
                   pending_action_target, action_submitted, joint_public_key,
                   all_encrypted_roles, my_encrypted_role>>
    /\ UNCHANGED <<pc, request, request_survivors, attempt, tools, inv, response,
                   first_call, accepted, forced_abstain, sent_investigate, decoy_task>>

\* ---------------------------------------------------------- request_action
\* The start of request_action: cancel the chat task, reset the round's state,
\* take the phase and the alive status from the request.
StillAliveByList(survivors) == player_index \in survivors

\* if state.player_index not in request.survivors: state.alive = False
StillAlive(survivors) == alive /\ player_index \in survivors

ResetForAction(phase, survivors) ==
    /\ pc = "idle"
    /\ role # "none"
    /\ request' = phase
    /\ request_survivors' = survivors
    /\ current_phase' = phase
    /\ alive' = StillAlive(survivors)
    /\ first_call' = None
    /\ accepted' = None
    /\ forced_abstain' = FALSE
    /\ sent_investigate' = {}
    /\ fused' = None
    /\ inv' = InvIdle
    /\ attempt' = 0
    /\ round_begun' = TRUE
    /\ calls' = [c \in CallSlots |-> IdleCall]
    /\ notes' = MarkDeadPlayers(notes, survivors)
    /\ UNCHANGED <<relayVars, dkgVars, overlapVars, chatVars, lobbyVars, game_id, cc, keypair, endpoint_response,
                   eval_mult_keys>>
    /\ UNCHANGED <<roster, player_index, role, joint_public_key,
                   all_encrypted_roles, my_encrypted_role>>

\* A dead player answers with the zero triple, whatever the phase.
RequestActionDead(phase, survivors) ==
    /\ ResetForAction(phase, survivors)
    /\ ~StillAlive(survivors)
    /\ action_submitted' = FALSE
    /\ pending_action_target' = None
    /\ response' = ActionResponse(dead_player_vectors, phase)
    /\ UNCHANGED <<pc, tools, decoy_task>>

\* Vote phase: handle_vote_phase installs the vote tools and calls the
\* decision source.
RequestActionVote(survivors) ==
    /\ ResetForAction("vote", survivors)
    /\ StillAlive(survivors)
    /\ action_submitted' = FALSE
    /\ pending_action_target' = None
    /\ tools' = create_agent_tools("vote", role)
    /\ pc' = "initial"
    /\ response' = NoResponse
    /\ UNCHANGED decoy_task

\* Night phase of a citizen: no decision-source call; the action counts as
\* submitted, a decoy broadcast is started and the triple is built at once.
RequestActionNightCitizen(survivors) ==
    /\ ResetForAction("night", survivors)
    /\ StillAlive(survivors)
    /\ role = "citizen"
    /\ pending_action_target' = None
    /\ action_submitted' = TRUE
    /\ decoy_task' = TRUE
    /\ response' = ActionResponse(generate_night_work_vectors(role, "night", None), "night")
    /\ UNCHANGED <<pc, tools>>

\* Night phase of every other role: handle_night_phase installs the night
\* tools and calls the decision source.
RequestActionNight(survivors) ==
    /\ ResetForAction("night", survivors)
    /\ StillAlive(survivors)
    /\ role # "citizen"
    /\ action_submitted' = FALSE
    /\ pending_action_target' = None
    /\ tools' = create_agent_tools("night", role)
    /\ pc' = "initial"
    /\ response' = NoResponse
    /\ UNCHANGED decoy_task

\* Chat and day phase: the chat loop starts in the background and the zero
\* triple is returned at once.
RequestActionChat(phase, survivors) ==
    /\ phase \in {"chat", "day"}
    /\ ResetForAction(phase, survivors)
    /\ StillAlive(survivors)
    /\ action_submitted' = FALSE
    /\ pending_action_target' = None
    /\ tools' = create_agent_tools(phase, role)
    /\ response' = ActionResponse(handle_chat_phase_vectors, phase)
    /\ UNCHANGED <<pc, decoy_task>>

\* Any other phase string: the zero triple.
RequestActionUnknown(survivors) ==
    /\ ResetForAction("other", survivors)
    /\ StillAlive(survivors)
    /\ action_submitted' = FALSE
    /\ pending_action_target' = None
    /\ response' = ActionResponse(unknown_phase_vectors, "other")
    /\ UNCHANGED <<pc, tools, decoy_task>>

\* The pending send_dummy_investigation_packets task posts its zero vector to
\* every other player.
SendDummyInvestigationPackets ==
    /\ decoy_task
    /\ decoy_task' = FALSE
    /\ sent_investigate' = sent_investigate \cup Others
    /\ UNCHANGED <<otherVars, roster, stateVars, pc, request, request_survivors, attempt,
                   tools, inv, response, first_call, accepted, forced_abstain, fused>>

\* ------------------------------------------------ decision source and tools
\* A Runner.run call of call_ai_with_retry is in progress and no tool is
\* being awaited.
RunnerActive ==
    /\ pc \in {"initial", "reminder"}
    /\ inv.st # "gather"
    /\ \A c \in CallSlots : calls[c].st # "awaiting"

\* The body shared by submit_vote, mafia_kill and doctor_heal: refuse when
\* dead or already submitted, else record the target or the abstention.
ToolSubmit(tool, ok, t) ==
    /\ RunnerActive
    /\ tool \in tools
    /\ first_call' = IF first_call = None THEN Some([tool |-> tool, target |-> t])
                     ELSE first_call
    /\ IF ~alive \/ action_submitted
       THEN UNCHANGED <<pending_action_target, action_submitted, accepted>>
       ELSE /\ action_submitted' = TRUE
            /\ pending_action_target' = IF ok THEN Some(t) ELSE None
            /\ accepted' = IF ok THEN Some([tool |-> tool, target |-> t]) ELSE accepted
    /\ UNCHANGED <<otherVars, roster, player_index, role, alive, current_phase,
                   joint_public_key, all_encrypted_roles, my_encrypted_role>>
    /\ UNCHANGED <<pc, request, request_survivors, attempt, tools, inv, response,
                   forced_abstain, sent_investigate, decoy_task, fused>>

submit_vote(t) == ToolSubmit("submit_vote", submit_vote_accepts(t), t)
mafia_kill(t) == ToolSubmit("mafia_kill", mafia_kill_accepts(t), t)
doctor_heal(t) == ToolSubmit("doctor_heal", doctor_heal_accepts(t), t)

\* ------------------------------------------------------------ investigation
\* Fault variant: the indicator of the first role instead of the mafia's.
mafia_check_vector_first == <<1, 0, 0, 0>>

mafia_check_vector == <<0, 1, 0, 0>>

\* The ciphertext the investigator asks its peers to share-decrypt.
InvestigateCiphertext(t) ==
    homomorphic_dot_product(deserialize_ciphertext(all_encrypted_roles[t + 1]),
                            mafia_check_vector)

\* The investigator's own share.
MyInvestigatePartial(ct) == partial_decrypt_main(ct, player_index)

\* /investigate_parallel as an agent answers it.
investigate_parallel(ct, q) == partial_decrypt_main(ct, q)
\* The same request as party 0, the designated lead, answers it.
LeadInvestigatePartial(ct) == partial_decrypt_lead(ct, 0)

PeerPartial(ct, q) ==
    IF q = 0 THEN LeadInvestigatePartial(ct) ELSE investigate_parallel(ct, q)

\* What collect_partial hands to the gather for a peer whose request ended
\* as `outcome`: the share, or None for a failure.
collect_partial(ct, q, outcome) ==
    IF outcome = "ok" THEN Some(PeerPartial(ct, q)) ELSE None

\* all_partials: the own share, then the shares the gather returned, in task
\* (player index) order, the None results skipped.
AllPartials(ct, replies) ==
    LET F[i \in 0 .. NumPlayers] ==
            IF i = 0 THEN <<MyInvestigatePartial(ct)>>
            ELSE IF i - 1 = player_index THEN F[i - 1]
            ELSE F[i - 1] \o collect_partial(ct, i - 1, replies[i - 1])
    IN F[NumPlayers]

IsMafia(decrypted_vector) == SumTo(decrypted_vector, NUM_ROLE_TYPES) >= 1

\* police_investigate: refuse when dead or already submitted; an invalid
\* target is an abstention; a valid one starts the fan-out to every peer.
police_investigate(t) ==
    /\ RunnerActive
    /\ "police_investigate" \in tools
    /\ first_call' = IF first_call = None
                     THEN Some([tool |-> "police_investigate", target |-> t])
                     ELSE first_call
    /\ IF ~alive \/ action_submitted
       THEN UNCHANGED <<pending_action_target, action_submitted, inv, sent_investigate>>
       ELSE IF police_investigate_accepts(t)
       THEN /\ inv' = [st |-> "gather", target |-> Some(t),
                       replies |-> [q \in Others |-> "wait"], result |-> None]
            /\ sent_investigate' = sent_investigate \cup Others
            /\ UNCHANGED <<pending_action_target, action_submitted>>
       ELSE /\ pending_action_target' = None
            /\ action_submitted' = TRUE
            /\ UNCHANGED <<inv, sent_investigate>>
    /\ UNCHANGED <<otherVars, roster, player_index, role, alive, current_phase,
                   joint_public_key, all_encrypted_roles, my_encrypted_role>>
    /\ UNCHANGED <<pc, request, request_survivors, attempt, tools, response, accepted,
                   forced_abstain, decoy_task, fused>>

\* A peer's answer arrives.
PeerReply(q) ==
    /\ inv.st = "gather"
    /\ inv.replies[q] = "wait"
    /\ inv' = [inv EXCEPT !.replies[q] = "ok"]
    /\ UNCHANGED <<otherVars, roster, stateVars, pc, request, request_survivors, attempt,
                   tools, response, first_call, accepted, forced_abstain, sent_investigate,
                   decoy_task, fused>>

\* A peer is unreachable, answers with an error status, or times out.
PeerFail(q) ==
    /\ inv.st = "gather"
    /\ inv.replies[q] = "wait"
    /\ inv' = [inv EXCEPT !.replies[q] = "fail"]
    /\ UNCHANGED <<otherVars, roster, stateVars, pc, request, request_survivors, attempt,
                   tools, response, first_call, accepted, forced_abstain, sent_investigate,
                   decoy_task, fused>>

\* The end of the gather. If an exception leaves _execute_police_investigation
\* (`aborts`), police_investigate catches it and only marks the action
\* submitted; otherwise the investigator fuses what was collected, records
\* the result and the target.
InvestigateFinish(aborts) ==
    /\ inv.st = "gather"
    /\ \A q \in Others : inv.replies[q] # "wait"
    /\ LET t == inv.target[1]
           all_partials == AllPartials(InvestigateCiphertext(t), inv.replies)
       IN IF aborts
          THEN /\ inv' = [inv EXCEPT !.st = "failed"]
               /\ action_submitted' = TRUE
               /\ UNCHANGED <<fused, pending_action_target, accepted>>
          ELSE /\ \E decrypted_vector \in fusion_decrypt(all_partials) :
                      inv' = [inv EXCEPT !.st = "done",
                                         !.result = Some(IsMafia(decrypted_vector))]
               /\ fused' = Some(all_partials)
               /\ pending_action_target' = Some(t)
               /\ action_submitted' = TRUE
               /\ accepted' = Some([tool |-> "police_investigate", target |-> t])
    /\ UNCHANGED <<otherVars, roster, player_index, role, alive, current_phase,
                   joint_public_key, all_encrypted_roles, my_encrypted_role>>
    /\ UNCHANGED <<pc, request, request_survivors, attempt, tools, response, first_call,
                   forced_abstain, sent_investigate, decoy_task>>

\* Fault variant: a failed peer request raises out of the gather.
InvestigateFuseAborting == InvestigateFinish(\E q \in Others : inv.replies[q] = "fail")

\* collect_partial catches every exception of a peer request, so a failed
\* peer never aborts the gather.
InvestigateFuse == InvestigateFinish(FALSE)

\* ------------------------------------------------------ call_ai_with_retry
\* The handler builds the triple from `target` and answers the request.
Answer(target) ==
    /\ response' = ActionResponse(PhaseVectors(request, target), request)
    /\ pc' = "idle"

\* The initial call returns: done if an action was submitted, else the
\* reminder is sent.
RunnerReturnInitial ==
    /\ pc = "initial"
    /\ RunnerActive
    /\ IF action_submitted
       THEN /\ Answer(pending_action_target)
            /\ UNCHANGED attempt
       ELSE /\ pc' = "reminder"
            /\ attempt' = 0
            /\ UNCHANGED response
    /\ UNCHANGED <<otherVars, roster, stateVars, request, request_survivors, tools, inv,
                   first_call, accepted, forced_abstain, sent_investigate, decoy_task,
                   fused>>

\* The reminder call returns: without a submitted action the round is an
\* abstention.
RunnerReturnReminder ==
    /\ pc = "reminder"
    /\ RunnerActive
    /\ pending_action_target' = IF action_submitted THEN pending_action_target ELSE None
    /\ Answer(pending_action_target')
    /\ UNCHANGED <<otherVars, roster, player_index, role, alive, current_phase,
                   action_submitted, joint_public_key, all_encrypted_roles,
                   my_encrypted_role>>
    /\ UNCHANGED <<request, request_survivors, attempt, tools, inv, first_call, accepted,
                   forced_abstain, sent_investigate, decoy_task, fused>>

RunnerLockRetryOnceMore ==
    /\ RunnerActive
    /\ attempt < max_lock_retries
    /\ attempt' = attempt + 1
    /\ UNCHANGED <<otherVars, roster, stateVars, pc, request, request_survivors, tools,
                   inv, response, first_call, accepted, forced_abstain, sent_investigate,
                   decoy_task, fused>>

\* A call fails with conversation_lock_failed and attempts are left: sleep
\* and call again.
RunnerLockRetry ==
    /\ RunnerActive
    /\ attempt < max_lock_retries - 1
    /\ attempt' = attempt + 1
    /\ UNCHANGED <<otherVars, roster, stateVars, pc, request, request_survivors, tools,
                   inv, response, first_call, accepted, forced_abstain, sent_investigate,
                   decoy_task, fused>>

\* The initial call raises (any other error, or the lock failure of the last
\* attempt): the error leaves request_action as an HTTP 500.
RunnerRaiseInitial ==
    /\ pc = "initial"
    /\ RunnerActive
    /\ response' = HTTPException
    /\ pc' = "idle"
    /\ UNCHANGED <<otherVars, roster, stateVars, request, request_survivors, attempt,
                   tools, inv, first_call, accepted, forced_abstain, sent_investigate,
                   decoy_task, fused>>

RunnerRaiseReminderKeeping ==
    /\ pc = "reminder"
    /\ RunnerActive
    /\ forced_abstain' = TRUE
    /\ Answer(pending_action_target)
    /\ UNCHANGED <<otherVars, roster, stateVars>>
    /\ UNCHANGED <<request, request_survivors, attempt, tools, inv, first_call, accepted,
                   sent_investigate, decoy_task, fused>>

\* The reminder call raises: the except branch forces an abstention.
RunnerRaiseReminder ==
    /\ pc = "reminder"
    /\ RunnerActive
    /\ pending_action_target' = None
    /\ forced_abstain' = TRUE
    /\ Answer(None)
    /\ UNCHANGED <<otherVars, roster, player_index, role, alive, current_phase,
                   action_submitted, joint_public_key, all_encrypted_roles,
                   my_encrypted_role>>
    /\ UNCHANGED <<request, request_survivors, attempt, tools, inv, first_call, accepted,
                   sent_investigate, decoy_task, fused>>

\* ------------------------------------------------------------ specification
Next ==
    \/ BlindRoleAssignment
    \/ CompleteRoleDecryption
    \/ \E ph \in Phases, sv \in SurvivorLists : RequestActionDead(ph, sv)
    \/ \E sv \in SurvivorLists : RequestActionVote(sv)
    \/ \E sv \in SurvivorLists : RequestActionNightCitizen(sv)
    \/ \E sv \in SurvivorLists : RequestActionNight(sv)
    \/ \E ph \in Phases, sv \in SurvivorLists : RequestActionChat(ph, sv)
    \/ \E sv \in SurvivorLists : RequestActionUnknown(sv)
    \/ SendDummyInvestigationPackets
    \/ \E t \in ToolTargets : submit_vote(t)
    \/ \E t \in ToolTargets : mafia_kill(t)
    \/ \E t \in ToolTargets : doctor_heal(t)
    \/ \E t \in ToolTargets : police_investigate(t)
    \/ \E q \in Others : PeerReply(q)
    \/ \E q \in Others : PeerFail(q)
    \/ InvestigateFuse
    \/ RunnerReturnInitial
    \/ RunnerReturnReminder
    \/ RunnerLockRetry
    \/ RunnerRaiseInitial
    \/ RunnerRaiseReminder

Spec == Init /\ [][Next]_vars

\* ------------------------------------------------------------------ claims
Plain(b64) == deserialize_ciphertext(b64).pt
Answered == pc = "idle" /\ request # "none"
AnsweredTriple == Answered /\ response.kind = "triple"
ResponseVectors == <<response.vote, response.attack, response.heal>>

\* C1: every successful response of request_action, for any phase, role and
\* alive/dead status, carries the three vectors vote, attack and heal, each
\* an encryption under the joint public key of a 0/1 vector of length
\* num_players.
C1_ThreeVectorsOfLengthN ==
    AnsweredTriple =>
        /\ {"vote", "attack", "heal"} \subseteq DOMAIN response
        /\ \A i \in 1 .. 3 :
              LET ct == deserialize_ciphertext(ResponseVectors[i])
              IN /\ ct.pk = JointKey
                 /\ DOMAIN ct.pt = 1 .. NumPlayers
                 /\ \A k \in DOMAIN ct.pt : ct.pt[k] \in {0, 1}

\* A dead party has answered a night request with its triple.
C1_Witness ==
    AnsweredTriple /\ ~alive /\ request = "night" /\ role = "mafia"

\* C2: in every triple at most one of the three vectors is one-hot, and the
\* others are all-zero.
C2_AtMostOneOneHot ==
    AnsweredTriple =>
        /\ \A i \in 1 .. 3 :
              IsZeroPlain(Plain(ResponseVectors[i])) \/ IsOneHotPlain(Plain(ResponseVectors[i]))
        /\ Cardinality({i \in 1 .. 3 : ~IsZeroPlain(Plain(ResponseVectors[i]))}) <= 1

\* A doctor's night triple: the heal vector one-hot, the other two zero.
C2_Witness ==
    /\ AnsweredTriple
    /\ role = "doctor"
    /\ IsOneHotPlain(Plain(response.heal))
    /\ IsZeroPlain(Plain(response.vote))
    /\ IsZeroPlain(Plain(response.attack))

\* C3: in a night round the attack vector is non-zero only for a live mafia,
\* the heal vector only for a live doctor, and a police or citizen party
\* emits the all-zero triple, also after the police investigated a target.
C3_OnlyRoleBearerFills ==
    (AnsweredTriple /\ request = "night") =>
        /\ ~IsZeroPlain(Plain(response.attack)) => (role = "mafia" /\ alive)
        /\ ~IsZeroPlain(Plain(response.heal)) => (role = "doctor" /\ alive)
        /\ role \in {"police", "citizen"} =>
              \A i \in 1 .. 3 : IsZeroPlain(Plain(ResponseVectors[i]))

\* A police party that completed an investigation has answered the night round.
C3_Witness ==
    /\ AnsweredTriple
    /\ request = "night"
    /\ role = "police"
    /\ inv.st = "done"
    /\ pending_action_target # None

\* The vector of the response an action tool fills.
ToolVector(tool) ==
    CASE tool = "submit_vote" -> Plain(response.vote)
      [] tool = "mafia_kill" -> Plain(response.attack)
      [] tool = "doctor_heal" -> Plain(response.heal)

SubmitTools == {"submit_vote", "mafia_kill", "doctor_heal"}

C5_LivePartyAnswersWithTriple ==
    (Answered /\ alive) => response.kind = "triple"

\* C6: in a night round every live party, whatever its role, sends an
\* investigate request to every other party.
C6_EveryRoleSendsInvestigate ==
    (AnsweredTriple /\ request = "night" /\ alive /\ ~decoy_task) =>
        sent_investigate = Others

\* C7: every fusion is computed over exactly N shares, one of each party.
C7_FusionOverAllShares ==
    fused # None =>
        /\ Len(fused[1]) = NumPlayers
        /\ {fused[1][i].by : i \in DOMAIN fused[1]} = Parties

\* The peers whose request failed, and those that answered.
FailedPeers == {q \in Others : inv.replies[q] = "fail"}
AnsweringPeers == {q \in Others : inv.replies[q] = "ok"}

\* C8: when a peer fails during the gather, the investigator raises no error:
\* it waits for every reply, drops the failed peer's share, fuses its own share
\* with the collected ones, and ends with a boolean result, the target
\* recorded and the action marked submitted.
C8_FailedPeerIsDropped ==
    [][(inv.st = "gather" /\ inv'.st # "gather" /\ FailedPeers # {}) =>
          /\ \A q \in Others : inv.replies[q] # "wait"
          /\ inv'.st = "done"
          /\ inv'.result \in {Some(TRUE), Some(FALSE)}
          /\ action_submitted'
          /\ pending_action_target' = inv.target
          /\ pc' = pc
          /\ response' = response
          /\ fused' # None
          /\ {fused'[1][i].by : i \in DOMAIN fused'[1]} = {player_index} \cup AnsweringPeers
          /\ Len(fused'[1]) = 1 + Cardinality(AnsweringPeers)]_vars

\* An investigation has completed although a peer failed.
C8_Witness ==
    inv.st = "done" /\ FailedPeers # {} /\ AnsweringPeers # {} /\ action_submitted

\* C9: when the shares of all N parties are collected, the investigation of
\* player k yields true exactly when k's role is mafia, in whatever order the
\* replies arrived.
C9_InvestigationTellsMafia ==
    (inv.st = "done" /\ FailedPeers = {}) =>
        inv.result = Some(roster[inv.target[1]] = "mafia")

\* A complete investigation of a mafia player has returned true.
C9_Witness ==
    /\ inv.st = "done"
    /\ FailedPeers = {}
    /\ roster[inv.target[1]] = "mafia"
    /\ inv.result = Some(TRUE)

\* C10: every fused share list holds exactly one lead share, all others
\* being non-lead shares.
C10_ExactlyOneLeadShare ==
    fused # None =>
        Cardinality({i \in DOMAIN fused[1] : fused[1][i].lead}) = 1

\* A step of call_ai_with_retry: the loop variable steps by one within a
\* call position or restarts from zero, the reminder is sent only
\* when no action was submitted, and nothing follows it but the answer.
RetryStep ==
    /\ (attempt' # attempt) =>
          (\/ (attempt' = attempt + 1 /\ pc' = pc /\ pc \in {"initial", "reminder"})
           \/ attempt' = 0)
    /\ (pc = "reminder") => (pc' \in {"reminder", "idle"})
    /\ (pc = "initial" /\ pc' = "reminder") => ~action_submitted

\* C27: call_ai_with_retry makes at most max_lock_retries calls of the
\* decision source for the initial prompt and at most as many for the one
\* reminder, a further call following only a conversation-lock failure;
\* after the reminder the handler answers.
C27_RetriesBounded ==
    /\ [](attempt + 1 <= max_lock_retries)
    /\ [][RetryStep]_vars

C27_Witness ==
    /\ pc = "reminder"
    /\ attempt + 1 = max_lock_retries
    /\ ~action_submitted

\* C28: a vote or night round of a live party in which no action was
\* submitted by the end of the reminder call, or whose reminder call
\* raised, is an abstention: no target is pending and the three vectors of
\* the triple are all-zero.
C28_NoSubmissionIsAbstention ==
    (/\ AnsweredTriple
     /\ alive
     /\ request \in {"vote", "night"}
     /\ (~action_submitted \/ forced_abstain)) =>
        /\ pending_action_target = None
        /\ \A i \in 1 .. 3 : IsZeroPlain(Plain(ResponseVectors[i]))

\* A mafia's reminder call raised after mafia_kill had accepted a target.
C28_Witness ==
    /\ AnsweredTriple
    /\ alive
    /\ request = "night"
    /\ forced_abstain
    /\ accepted # None
    /\ accepted[1].tool = "mafia_kill"
    /\ IsZeroPlain(Plain(response.attack))

\* C29: death is absorbing within a game.  From the request_action whose
\* survivors list omits the party on, the party stays dead whatever later
\* lists say, the decision source is not called, and every request is
\* answered with the all-zero triple.
C29_DeathIsAbsorbing ==
    /\ [][~alive => ~alive']_vars
    /\ [](player_index \notin request_survivors => ~alive)
    /\ [](~alive => /\ pc = "idle"
                    /\ first_call = None
                    /\ response.kind = "triple"
                    /\ \A i \in 1 .. 3 : IsZeroPlain(Plain(ResponseVectors[i])))

\* A dead party has answered a request whose survivors list names it again.
C29_Witness ==
    /\ ~alive
    /\ player_index \in request_survivors
    /\ AnsweredTriple
    /\ request = "vote"
    /\ \A i \in 1 .. 3 : IsZeroPlain(Plain(ResponseVectors[i]))

\* C30: a target a tool accepts, and so a pending target, is a player
\* index; a vote, an attack and an investigation are never accepted for the
\* party's own index, and a round whose first tool call was one of these
\* on the own index is submitted without a target; no vote or attack vector
\* of a triple is one-hot at the sender's index.
C30_TargetsInRangeNotSelf ==
    /\ accepted # None =>
          /\ accepted[1].target \in Parties
          /\ accepted[1].tool # "doctor_heal" => accepted[1].target # player_index
    /\ pending_action_target # None => pending_action_target[1] \in Parties
    /\ (/\ first_call # None
        /\ first_call[1].target = player_index
        /\ first_call[1].tool # "doctor_heal") =>
          (action_submitted /\ pending_action_target = None /\ accepted = None)
    /\ AnsweredTriple =>
          /\ Plain(response.vote) # OneHotPlain(NumPlayers, player_index)
          /\ Plain(response.attack) # OneHotPlain(NumPlayers, player_index)

\* A mafia that named itself as the victim has answered the night round.
C30_Witness ==
    /\ AnsweredTriple
    /\ alive
    /\ first_call = Some([tool |-> "mafia_kill", target |-> player_index])
    /\ action_submitted
    /\ IsZeroPlain(Plain(response.attack))

\* ------------------------------------------------- relay decryption chain
\* /relay_decrypt (player.py:534-610).  Every hop of a chain runs the same
\* handler; a frame is one running handler.  The requester is caller 0, a
\* handler is named by its position in rl_frames.  The requester names a
\* first party and an order of distinct other parties.
RelayCiphertexts ==
    {create_one_hot_vector(NUM_ROLE_TYPES, k, JointKey) : k \in 0 .. (NUM_ROLE_TYPES - 1)}

RelayOrders(first) ==
    {o \in UNION {[1 .. k -> Parties \ {first}] : k \in 0 .. (NumPlayers - 1)} :
        \A i, j \in DOMAIN o : i # j => o[i] # o[j]}

PartialResults(list) == [kind |-> "partial_results", list |-> list, vec |-> <<>>]
DecryptedVector(v) == [kind |-> "decrypted_vector", list |-> <<>>, vec |-> v]
RelayHTTPException == [kind |-> "error", list |-> <<>>, vec |-> <<>>]

RelayRequestTo(to, from, ct_b64, partials, remaining) ==
    [to |-> to, from |-> from, ciphertext |-> ct_b64,
     partial_results |-> partials, remaining_order |-> remaining]

\* The requester posts the request to the first party of the chain.
RelayRequest ==
    /\ rl_first = None
    /\ \E ct \in RelayCiphertexts, first \in Parties :
         \E order \in RelayOrders(first) :
            /\ rl_ct' = Some(ct)
            /\ rl_first' = Some(first)
            /\ rl_order' = order
            /\ rl_requests' = {RelayRequestTo(first, 0, serialize_ciphertext(ct), <<>>, order)}
    /\ UNCHANGED <<rl_frames, rl_responses, rl_result, rl_fusions, rl_failed>>
    /\ UNCHANGED <<roster, stateVars, roundVars, setupVars, dkgVars, overlapVars, sideVars>>

relay_append_front(partials, partial_b64) == <<partial_b64>> \o partials

\* partial_results_b64.append(partial_b64)
relay_append(partials, partial_b64) == Append(partials, partial_b64)

\* The handler starts: it computes its own share and appends it to the list.
RelayReceive(m) ==
    /\ m \in rl_requests
    /\ LET ciphertext == deserialize_ciphertext(m.ciphertext)
           partial == partial_decrypt_main(ciphertext, m.to)
       IN rl_frames' = Append(rl_frames,
              [party |-> m.to, caller |-> m.from, ciphertext |-> m.ciphertext,
               partial_results |-> relay_append(m.partial_results, serialize_ciphertext(partial)),
               remaining_order |-> m.remaining_order, st |-> "computing"])
    /\ rl_requests' = rl_requests \ {m}
    /\ UNCHANGED <<rl_ct, rl_first, rl_order, rl_responses, rl_result, rl_fusions,
                   rl_failed>>
    /\ UNCHANGED <<roster, stateVars, roundVars, setupVars, dkgVars, overlapVars, sideVars>>

\* len(remaining_order) == 0: the last player returns the list to its caller.
RelayReturnLast(k) ==
    /\ k \in DOMAIN rl_frames
    /\ rl_frames[k].st = "computing"
    /\ Len(rl_frames[k].remaining_order) = 0
    /\ rl_responses' = rl_responses \cup
          {[to |-> rl_frames[k].caller, body |-> PartialResults(rl_frames[k].partial_results)]}
    /\ rl_frames' = [rl_frames EXCEPT ![k].st = "returned"]
    /\ UNCHANGED <<rl_ct, rl_first, rl_order, rl_requests, rl_result, rl_fusions,
                   rl_failed>>
    /\ UNCHANGED <<roster, stateVars, roundVars, setupVars, dkgVars, overlapVars, sideVars>>

relay_forward_all(k, f) ==
    {RelayRequestTo(f.remaining_order[i], k, f.ciphertext, f.partial_results, <<>>) :
        i \in DOMAIN f.remaining_order}

relay_forward_skipping(k, f) ==
    {RelayRequestTo(f.remaining_order[1], k, f.ciphertext, f.partial_results,
                    IF Len(f.remaining_order) >= 2 THEN Tail(Tail(f.remaining_order))
                    ELSE <<>>)}

\* The requests a handler posts: one, to remaining_order[0], with the rest
\* of the order.
relay_forward(k, f) ==
    {RelayRequestTo(f.remaining_order[1], k, f.ciphertext, f.partial_results,
                    Tail(f.remaining_order))}

RelayForward(k) ==
    /\ k \in DOMAIN rl_frames
    /\ rl_frames[k].st = "computing"
    /\ Len(rl_frames[k].remaining_order) # 0
    /\ rl_requests' = rl_requests \cup relay_forward(k, rl_frames[k])
    /\ rl_frames' = [rl_frames EXCEPT ![k].st = "waiting"]
    /\ UNCHANGED <<rl_ct, rl_first, rl_order, rl_responses, rl_result, rl_fusions,
                   rl_failed>>
    /\ UNCHANGED <<roster, stateVars, roundVars, setupVars, dkgVars, overlapVars, sideVars>>

\* The party a request is sent to is unreachable, or its handler raises:
\* the caller's post or raise_for_status raises.
RelayHopFail(m) ==
    /\ m \in rl_requests
    /\ rl_requests' = rl_requests \ {m}
    /\ rl_responses' = rl_responses \cup {[to |-> m.from, body |-> RelayHTTPException]}
    /\ rl_failed' = TRUE
    /\ UNCHANGED <<rl_ct, rl_first, rl_order, rl_frames, rl_result, rl_fusions>>
    /\ UNCHANGED <<roster, stateVars, roundVars, setupVars, dkgVars, overlapVars, sideVars>>

\* The 60 s timeout of a handler's post expires: the handler raises while
\* the hops below it go on.
RelayTimeout(k) ==
    /\ k \in DOMAIN rl_frames
    /\ rl_frames[k].st = "waiting"
    /\ rl_frames' = [rl_frames EXCEPT ![k].st = "returned"]
    /\ rl_responses' = rl_responses \cup {[to |-> rl_frames[k].caller, body |-> RelayHTTPException]}
    /\ rl_failed' = TRUE
    /\ UNCHANGED <<rl_ct, rl_first, rl_order, rl_requests, rl_result, rl_fusions>>
    /\ UNCHANGED <<roster, stateVars, roundVars, setupVars, dkgVars, overlapVars, sideVars>>

relay_on_error_partials(f, body) ==
    IF body.kind = "error" THEN PartialResults(f.partial_results) ELSE body

\* What a handler does with an error response: raise_for_status raises and
\* the except branch turns it into HTTP 500.
relay_on_error(f, body) ==
    IF body.kind = "error" THEN RelayHTTPException ELSE body

\* What a handler returns for the response of the hop below it: a list of
\* partials is fused and the decrypted vector v returned, anything else is
\* returned as it is.
relay_unwind(f, body, v) ==
    IF body.kind = "partial_results" THEN DecryptedVector(v) ELSE body

\* The response of the next hop arrives at the handler that awaits it.
RelayUnwind(r) ==
    /\ r \in rl_responses
    /\ r.to \in DOMAIN rl_frames
    /\ rl_frames[r.to].st = "waiting"
    /\ LET f == rl_frames[r.to]
           body == relay_on_error(f, r.body)
           shares == [i \in DOMAIN body.list |-> deserialize_ciphertext(body.list[i])]
       IN IF body.kind = "partial_results"
          THEN \E v \in fusion_decrypt(shares) :
                 LET out == relay_unwind(f, body, v)
                 IN /\ rl_responses' = (rl_responses \ {r}) \cup {[to |-> f.caller, body |-> out]}
                    /\ rl_fusions' =
                         IF out.kind = "decrypted_vector"
                         THEN rl_fusions \cup {[by |-> f.party, shares |-> shares]}
                         ELSE rl_fusions
          ELSE /\ rl_responses' = (rl_responses \ {r}) \cup {[to |-> f.caller, body |-> body]}
               /\ UNCHANGED rl_fusions
    /\ rl_frames' = [rl_frames EXCEPT ![r.to].st = "returned"]
    /\ UNCHANGED <<rl_ct, rl_first, rl_order, rl_requests, rl_result, rl_failed>>
    /\ UNCHANGED <<roster, stateVars, roundVars, setupVars, dkgVars, overlapVars, sideVars>>

\* The response of the first hop reaches the requester.
RelayDeliver(r) ==
    /\ r \in rl_responses
    /\ r.to = 0
    /\ rl_result = None
    /\ rl_result' = Some(r.body)
    /\ rl_responses' = rl_responses \ {r}
    /\ UNCHANGED <<rl_ct, rl_first, rl_order, rl_requests, rl_frames, rl_fusions,
                   rl_failed>>
    /\ UNCHANGED <<roster, stateVars, roundVars, setupVars, dkgVars, overlapVars, sideVars>>

\* The agent processes at rest: the relay handler reads only the keys.
RelayInit ==
    /\ Init
    /\ roster = [p \in Parties |-> "citizen"]
    /\ player_index = 1

RelayNext ==
    \/ RelayRequest
    \/ \E m \in rl_requests : RelayReceive(m)
    \/ \E k \in DOMAIN rl_frames : RelayReturnLast(k)
    \/ \E k \in DOMAIN rl_frames : RelayForward(k)
    \/ \E m \in rl_requests : RelayHopFail(m)
    \/ \E k \in DOMAIN rl_frames : RelayTimeout(k)
    \/ \E r \in rl_responses : RelayUnwind(r)
    \/ \E r \in rl_responses : RelayDeliver(r)

RelaySpec == RelayInit /\ [][RelayNext]_vars

\* ---------------------------------------------------------- relay claims
RelayFromZero ==
    /\ rl_first = Some(0)
    /\ rl_order = [i \in 1 .. (NumPlayers - 1) |-> i]

RelayShares(body) == [i \in DOMAIN body.list |-> deserialize_ciphertext(body.list[i])]

\* The lists of partials a hop of the chain has returned.
RelayReturnedLists == {r.body : r \in {x \in rl_responses : x.body.kind = "partial_results"}}

C12_OnlyRequesterFuses ==
    /\ rl_fusions = {}
    /\ \A r \in rl_responses : r.body.kind # "decrypted_vector"
    /\ (rl_result # None /\ ~rl_failed) => rl_result[1].kind = "partial_results"

RelayParties == [k \in DOMAIN rl_frames |-> rl_frames[k].party]

\* C13: once a hop of a relay chain was unreachable or failed, every
\* response that travels to the requester is the error, the requester
\* receives nothing else, no party is asked twice, and no list travelling
\* up or down the chain lacks a party that was visited before it was built.
C13_ChainBreakIsFatal ==
    rl_failed =>
        /\ \A r \in rl_responses : r.to = 0 => r.body.kind = "error"
        /\ rl_result # None => rl_result[1].kind = "error"
        /\ \A j, k \in DOMAIN rl_frames : j # k => RelayParties[j] # RelayParties[k]
        /\ \A m \in rl_requests :
              \A i \in DOMAIN m.partial_results :
                  deserialize_ciphertext(m.partial_results[i]).by = (<<rl_first[1]>> \o rl_order)[i]

C13_Witness ==
    /\ rl_failed
    /\ rl_result # None
    /\ Len(rl_frames) >= 2

OutboundOf(p) ==
    {m \in rl_requests : m.from \in DOMAIN rl_frames /\ rl_frames[m.from].party = p}

\* C14: for one relay request, at most one party at a time is computing
\* its share or has a forward that was not yet received; the parties are
\* visited in the order the requester gave; and no party has more than one
\* outbound relay call outstanding.
C14_RelayIsSequential ==
    /\ Cardinality(rl_requests)
         + Cardinality({k \in DOMAIN rl_frames : rl_frames[k].st = "computing"}) <= 1
    /\ \A k \in DOMAIN rl_frames : RelayParties[k] = (<<rl_first[1]>> \o rl_order)[k]
    /\ \A p \in Parties : Cardinality(OutboundOf(p)) <= 1

C14_Witness ==
    /\ Len(rl_order) = NumPlayers - 1
    /\ Len(rl_frames) = NumPlayers
    /\ rl_frames[NumPlayers].st = "computing"

\* Every step that is possible is eventually taken: each hop's event loop
\* runs its handlers, and a post is answered, refused or timed out.
RelayFairSpec == RelaySpec /\ WF_vars(RelayNext)

\* The forwards issued so far: every handler but the first was started by
\* one, and so will every request in flight that a handler posted.
RelayForwards ==
    (Len(rl_frames) - 1) + Cardinality({m \in rl_requests : m.from # 0})

\* C26: a relay request over distinct parties ends.  Each forward hands on
\* a remaining_order one shorter than the one received, none is issued
\* for an empty one, and when every hop has answered the requester has its
\* answer after exactly Len(rl_order) forwards.
C26_RelayEnds ==
    /\ [](\A k \in DOMAIN rl_frames :
            Len(rl_frames[k].remaining_order) = Len(rl_order) - (k - 1))
    /\ [](\A m \in rl_requests :
            m.from # 0 => Len(m.remaining_order) + 1 = Len(rl_frames[m.from].remaining_order))
    /\ []((rl_result # None /\ ~rl_failed) => RelayForwards = Len(rl_order))
    /\ (rl_first # None) ~> (rl_result # None)

C26_Witness ==
    /\ rl_result # None
    /\ ~rl_failed
    /\ Len(rl_order) = NumPlayers - 1
    /\ RelayForwards = NumPlayers - 1
    /\ rl_requests = {}

\* --------------------------------------- set-up and share endpoints
\* One agent process from its start, with a host that may send any request
\* of the set-up and share endpoints at any time.  The host names the
\* process by the same index throughout.  Each handler runs to its answer
\* in one step; endpoint_response records the answer.
GameIds == {"g1", "g2"}
KeyInputs == {JointKey, "jpk2"}

RosterA ==
    [p \in Parties |-> CASE p = 1 -> "mafia" [] p = 2 -> "police" [] OTHER -> "citizen"]
RosterB ==
    [p \in Parties |-> CASE p = 1 -> "doctor" [] OTHER -> "citizen"]

EncryptedRolesOf(ro, pk) ==
    [i \in 1 .. NumPlayers |->
        serialize_ciphertext(create_one_hot_vector(NUM_ROLE_TYPES, ROLE_ENCODING(ro[i - 1]), pk))]

EncryptedRolesInputs == {EncryptedRolesOf(RosterA, JointKey), EncryptedRolesOf(RosterB, JointKey)}

Answer200(ep, kind, val, about) ==
    [endpoint |-> ep, status |-> 200, kind |-> kind, val |-> val, about |-> about]
Answer500(ep) ==
    [endpoint |-> ep, status |-> 500, kind |-> "error", val |-> <<>>, about |-> None]

EndpointFrame ==
    UNCHANGED <<roster, player_index, alive, current_phase, pending_action_target,
                action_submitted, roundVars, relayVars, dkgVars, overlapVars, sideVars>>

\* /dkg_setup
dkg_setup(g) ==
    /\ game_id' = Some(g)
    /\ cc' = Some("cc")
    /\ endpoint_response' = Answer200("dkg_setup", "ack", <<>>, None)
    /\ UNCHANGED <<keypair, role, joint_public_key, all_encrypted_roles,
                   my_encrypted_role, round_begun,
                   eval_mult_keys>>
    /\ EndpointFrame

dkg_round_keypair_lead(round_number, prev, p) == dkg_keygen_lead(p)

\* The keypair /dkg_round generates: the lead's for round 1 without a
\* previous key, otherwise one joined to the previous public key.
dkg_round_keypair(round_number, prev, p) ==
    IF round_number = 1 /\ prev = None
    THEN dkg_keygen_lead(p)
    ELSE dkg_keygen_join(deserialize_public_key(prev[1]), p)

dkg_round_answer_secret(kp) == serialize_public_key(kp.secretKey)

\* pk_b64 = serialize_public_key(state.cc, state.keypair.publicKey)
dkg_round_answer(kp) == serialize_public_key(kp.publicKey)

\* /dkg_round: prev is the request's previous_public_key, None or a key.
dkg_round(round_number, prev) ==
    /\ IF cc = None \/ (prev = None /\ round_number # 1)
       THEN /\ endpoint_response' = Answer500("dkg_round")
            /\ UNCHANGED keypair
       ELSE LET kp == dkg_round_keypair(round_number, prev, player_index)
                ans == dkg_round_answer(kp)
            IN /\ keypair' = Some(kp)
               /\ endpoint_response' =
                     Answer200("dkg_round", deserialize_public_key(ans).kind, ans, None)
    /\ UNCHANGED <<game_id, cc, role, joint_public_key, all_encrypted_roles,
                   my_encrypted_role, round_begun,
                   eval_mult_keys>>
    /\ EndpointFrame

KeysInitialized == cc # None /\ keypair # None

\* The answer of an endpoint that writes no field of the state.
EndpointReplies(ans) ==
    /\ endpoint_response' = ans
    /\ UNCHANGED <<game_id, cc, keypair, role, joint_public_key, all_encrypted_roles,
                   my_encrypted_role, round_begun>>
    /\ EndpointFrame

\* The answer of an endpoint that only reads the state and the crypto
\* context.
EndpointAnswers(ans) ==
    /\ EndpointReplies(ans)
    /\ UNCHANGED eval_mult_keys

MultiKeySwitchGen(sk, prev_key) == [kind |-> "eval_key", by |-> sk.of, prev |-> prev_key]
MultiMultEvalKey(sk, combined_key) == [kind |-> "mult_key", by |-> sk.of, of |-> combined_key]
EvalMultKeyGen(sk) == [kind |-> "eval_mult_key", by |-> sk.of]

\* What state.cc holds after EvalMultKeyGen or deserialize_eval_mult_key has
\* inserted the fragment of party p.  The library keeps the inserted
\* fragments by key tag.
InsertEvalMultKey(held, p) == held \cup {p}

\* A fragment deserialize_eval_mult_key cannot read.
MalformedKey == [kind |-> "malformed", by |-> 0]

\* The mult_keys lists a host may post: every party's fragment in index
\* order, every other party's, none, and a list with an unreadable entry.
AllMultKeys == [i \in 1 .. NumPlayers |-> EvalMultKeyGen(SecretKey(i - 1))]
MultKeyLists ==
    {AllMultKeys,
     SelectSeq(AllMultKeys, LAMBDA k : k.by # player_index),
     <<>>,
     <<AllMultKeys[1], MalformedKey, AllMultKeys[NumPlayers]>>}

\* The game_id field of a request dictionary: absent, or an identifier.
RequestGameIds == {None} \cup {Some(g) : g \in GameIds}

\* An answer together with the game_id and the mult_keys of its request.
WithRequest(ans, g, posted) ==
    [endpoint |-> ans.endpoint, status |-> ans.status, kind |-> ans.kind,
     val |-> ans.val, about |-> ans.about, game_id |-> g, mult_keys |-> posted]

GameIdMismatchIgnored(g) == FALSE

\* game_id = request.get("game_id"); if game_id != state.game_id: raise
\* ValueError.  g is None for a request without the field.
GameIdMismatch(g) == g # game_id

\* /generate_keyswitchgen
generate_keyswitchgen(g) ==
    EndpointAnswers(WithRequest(
        IF ~KeysInitialized \/ GameIdMismatch(g)
        THEN Answer500("generate_keyswitchgen")
        ELSE Answer200("generate_keyswitchgen", "eval_key",
                       MultiKeySwitchGen(keypair[1].secretKey, "prev_key"), None),
        g, <<>>))

\* /generate_multmultkey
generate_multmultkey(g) ==
    EndpointAnswers(WithRequest(
        IF ~KeysInitialized \/ GameIdMismatch(g)
        THEN Answer500("generate_multmultkey")
        ELSE Answer200("generate_multmultkey", "mult_key",
                       MultiMultEvalKey(keypair[1].secretKey, "combined_key"), None),
        g, <<>>))

\* /generate_mult_key: the party's own fragment is generated and inserted.
generate_mult_key(g) ==
    /\ IF ~KeysInitialized \/ GameIdMismatch(g)
       THEN /\ UNCHANGED eval_mult_keys
            /\ EndpointReplies(WithRequest(Answer500("generate_mult_key"), g, <<>>))
       ELSE /\ eval_mult_keys' = InsertEvalMultKey(eval_mult_keys, player_index)
            /\ EndpointReplies(
                  WithRequest(Answer200("generate_mult_key", "ack", <<>>, None), g, <<>>))

\* /get_eval_mult_key: the party's own fragment, generated on demand.
get_eval_mult_key ==
    IF ~KeysInitialized
    THEN /\ UNCHANGED eval_mult_keys
         /\ EndpointReplies(Answer500("get_eval_mult_key"))
    ELSE /\ eval_mult_keys' = InsertEvalMultKey(eval_mult_keys, player_index)
         /\ EndpointReplies(Answer200("get_eval_mult_key", "eval_mult_key",
                                      EvalMultKeyGen(keypair[1].secretKey), None))

\* One pass of the insertion loop that counts a fragment already held as
\* inserted.
insert_one_counting_held(acc, key) ==
    IF acc.raised THEN acc
    ELSE IF key.kind # "eval_mult_key" THEN [acc EXCEPT !.raised = TRUE]
    ELSE [acc EXCEPT !.held = InsertEvalMultKey(acc.held, key.by),
                     !.inserted_count = acc.inserted_count + 1]

\* One pass of the insertion loop of /receive_mult_keys: a fragment already
\* held is skipped, an unreadable one raises, any other is inserted.
insert_one(acc, key) ==
    IF acc.raised THEN acc
    ELSE IF key.kind # "eval_mult_key" THEN [acc EXCEPT !.raised = TRUE]
    ELSE IF key.by \in acc.held
         THEN [acc EXCEPT !.skipped_count = acc.skipped_count + 1]
    ELSE [acc EXCEPT !.held = InsertEvalMultKey(acc.held, key.by),
                     !.inserted_count = acc.inserted_count + 1]

RECURSIVE insert_mult_keys(_, _)
\* for i, key_b64 in enumerate(mult_keys): ...
insert_mult_keys(acc, mult_keys) ==
    IF mult_keys = <<>> THEN acc
    ELSE insert_mult_keys(insert_one(acc, Head(mult_keys)), Tail(mult_keys))

\* if state.cc is None: raise ValueError
ContextMissing == cc = None

\* /receive_mult_keys
receive_mult_keys(g, mult_keys) ==
    LET done == insert_mult_keys([held |-> eval_mult_keys, inserted_count |-> 0,
                                  skipped_count |-> 0, raised |-> FALSE], mult_keys)
    IN IF ContextMissing \/ GameIdMismatch(g)
       THEN /\ UNCHANGED eval_mult_keys
            /\ EndpointReplies(WithRequest(Answer500("receive_mult_keys"), g, mult_keys))
       ELSE /\ eval_mult_keys' = done.held
            /\ EndpointReplies(WithRequest(
                  IF done.raised
                  THEN Answer500("receive_mult_keys")
                  ELSE Answer200("receive_mult_keys", "ack",
                                 done.inserted_count, None),
                  g, mult_keys))

\* The ciphertexts a requester may post, with the party whose role
\* ciphertext it is (None for any other ciphertext).
PostedCiphertexts ==
    {[ct |-> EncryptedRoster[i + 1], about |-> Some(i)] : i \in Parties}
        \cup {[ct |-> serialize_ciphertext(create_zero_vector(NumPlayers, JointKey)),
               about |-> None]}

\* /partial_decrypt
partial_decrypt(posted, is_lead) ==
    EndpointAnswers(
        IF ~KeysInitialized
        THEN Answer500("partial_decrypt")
        ELSE LET ciphertext == deserialize_ciphertext(posted.ct)
                 partial == IF is_lead THEN partial_decrypt_lead(ciphertext, player_index)
                            ELSE partial_decrypt_main(ciphertext, player_index)
             IN Answer200("partial_decrypt", "partial", serialize_ciphertext(partial),
                          posted.about))

\* /investigate_parallel, the handler itself
investigate_parallel_endpoint(posted) ==
    EndpointAnswers(
        IF ~KeysInitialized
        THEN Answer500("investigate_parallel")
        ELSE Answer200("investigate_parallel", "partial",
                       serialize_ciphertext(
                           investigate_parallel(deserialize_ciphertext(posted.ct), player_index)),
                       posted.about))

\* /relay_decrypt posted to this process as the only hop of a chain.
relay_decrypt_single(posted) ==
    EndpointAnswers(
        IF ~KeysInitialized
        THEN Answer500("relay_decrypt")
        ELSE Answer200("relay_decrypt", "partial",
                       relay_append(<<>>, serialize_ciphertext(
                           partial_decrypt_main(deserialize_ciphertext(posted.ct), player_index))),
                       posted.about))

\* /role_assignment, sent once the process has its crypto context.
role_assignment(r, jpk) ==
    /\ cc # None
    /\ role' = r
    /\ joint_public_key' = jpk
    /\ endpoint_response' = Answer200("role_assignment", "ack", <<>>, None)
    /\ UNCHANGED <<game_id, cc, keypair, all_encrypted_roles, my_encrypted_role,
                   round_begun, eval_mult_keys>>
    /\ EndpointFrame

\* /blind_role_assignment with the request's encrypted_roles and key, sent
\* once the process has its crypto context.
blind_role_assignment(encrypted_roles, jpk) ==
    /\ cc # None
    /\ joint_public_key' = jpk
    /\ all_encrypted_roles' = encrypted_roles
    /\ my_encrypted_role' = Some(encrypted_roles[player_index + 1])
    /\ endpoint_response' = Answer200("blind_role_assignment", "ack", <<>>, None)
    /\ UNCHANGED <<game_id, cc, keypair, role, round_begun,
                   eval_mult_keys>>
    /\ EndpointFrame

\* The labels one_hot_to_role may give for a decrypted vector.
DecryptedRoles(pt) ==
    IF IsOneHotPlain(pt) THEN {one_hot_to_role(pt)} ELSE Roles

\* return {"success": True, "role": state.role}
complete_role_decryption_answer(r) ==
    Answer200("complete_role_decryption", "role", r, None)

\* /complete_role_decryption; conv_ok: create_conversation succeeds.
complete_role_decryption(all_of_them, conv_ok) ==
    /\ IF my_encrypted_role = None \/ keypair = None
       THEN /\ endpoint_response' = Answer500("complete_role_decryption")
            /\ UNCHANGED role
       ELSE LET ct == deserialize_ciphertext(my_encrypted_role[1])
                received == IF all_of_them THEN HostPartials(ct)
                            ELSE SubSeq(HostPartials(ct), 1, Len(HostPartials(ct)) - 1)
                partial_results == RoleDecryptionShares(received)
            IN \E pt \in fusion_decrypt(partial_results) :
                 \E r \in DecryptedRoles(SubSeq(pt, 1, NUM_ROLE_TYPES)) :
                    /\ role' = r
                    /\ endpoint_response' =
                          IF conv_ok THEN complete_role_decryption_answer(r)
                          ELSE Answer500("complete_role_decryption")
    /\ UNCHANGED <<game_id, cc, keypair, joint_public_key, all_encrypted_roles,
                   my_encrypted_role, round_begun,
                   eval_mult_keys>>
    /\ EndpointFrame

\* /init
initialize_agent(g, jpk) ==
    /\ game_id' = Some(g)
    /\ cc' = Some("cc")
    /\ joint_public_key' = jpk
    /\ endpoint_response' = Answer200("init", "ack", <<>>, None)
    /\ UNCHANGED <<keypair, role, all_encrypted_roles, my_encrypted_role, round_begun,
                   eval_mult_keys>>
    /\ UNCHANGED <<roster, player_index, current_phase, pending_action_target,
                   action_submitted, roundVars, relayVars, dkgVars, overlapVars, sideVars>>
    /\ alive' = TRUE

\* /request_action arrives: an action round begins, and the process takes
\* its alive status from the survivors list.
RequestActionReceived(survivors) ==
    /\ role # "none"
    /\ round_begun' = TRUE
    /\ alive' = StillAlive(survivors)
    /\ endpoint_response' = Answer200("request_action", "triple", <<>>, None)
    /\ UNCHANGED <<game_id, cc, keypair, role, joint_public_key, all_encrypted_roles,
                   my_encrypted_role, eval_mult_keys>>
    /\ UNCHANGED <<roster, player_index, current_phase, pending_action_target,
                   action_submitted, roundVars, relayVars, dkgVars, overlapVars, sideVars>>

\* /reveal_role, which the host calls for a player that has died.
reveal_role ==
    /\ ~alive
    /\ EndpointAnswers(
        IF role = "none"
        THEN [endpoint |-> "reveal_role", status |-> 400, kind |-> "error",
              val |-> <<>>, about |-> None]
        ELSE Answer200("reveal_role", "role", role, None))

\* The process as AgentState() constructs it; the host will call it party 1
\* of the roster RosterA.
EndpointInit ==
    /\ roster = RosterA
    /\ player_index = 1
    /\ role = "none"
    /\ alive = TRUE
    /\ current_phase = "setup"
    /\ pending_action_target = None
    /\ action_submitted = FALSE
    /\ joint_public_key = "none"
    /\ all_encrypted_roles = <<>>
    /\ my_encrypted_role = None
    /\ pc = "idle"
    /\ request = "none"
    /\ request_survivors = Parties
    /\ attempt = 0
    /\ tools = {}
    /\ inv = InvIdle
    /\ response = NoResponse
    /\ first_call = None
    /\ accepted = None
    /\ forced_abstain = FALSE
    /\ sent_investigate = {}
    /\ decoy_task = FALSE
    /\ fused = None
    /\ RelayIdle
    /\ DkgIdle
    /\ HandlersIdle
    /\ CallsIdle
    /\ ChatIdle
    /\ NotesBlank
    /\ LobbyEmpty
    /\ game_id = None
    /\ cc = None
    /\ keypair = None
    /\ endpoint_response = NoEndpointResponse
    /\ round_begun = FALSE
    /\ eval_mult_keys = {}

PreviousKeyInputs == {None, Some(serialize_public_key(JoinedKey(0)))}

EndpointNext ==
    \/ \E g \in GameIds : dkg_setup(g)
    \/ \E rn \in {1, 2}, prev \in PreviousKeyInputs : dkg_round(rn, prev)
    \/ \E g \in RequestGameIds : generate_keyswitchgen(g)
    \/ \E g \in RequestGameIds : generate_multmultkey(g)
    \/ \E g \in RequestGameIds : generate_mult_key(g)
    \/ get_eval_mult_key
    \/ \E g \in RequestGameIds, mult_keys \in MultKeyLists : receive_mult_keys(g, mult_keys)
    \/ \E posted \in PostedCiphertexts, is_lead \in BOOLEAN : partial_decrypt(posted, is_lead)
    \/ \E posted \in PostedCiphertexts : investigate_parallel_endpoint(posted)
    \/ \E posted \in PostedCiphertexts : relay_decrypt_single(posted)
    \/ \E r \in Roles, jpk \in KeyInputs : role_assignment(r, jpk)
    \/ \E er \in EncryptedRolesInputs, jpk \in KeyInputs : blind_role_assignment(er, jpk)
    \/ \E all_of_them, conv_ok \in BOOLEAN : complete_role_decryption(all_of_them, conv_ok)
    \/ \E g \in GameIds, jpk \in KeyInputs : initialize_agent(g, jpk)
    \/ \E sv \in SurvivorLists : RequestActionReceived(sv)
    \/ reveal_role

EndpointSpec == EndpointInit /\ [][EndpointNext]_vars

\* ------------------------------------------------- claims on the endpoints
\* C15: no answer the process returns while it is alive in the game
\* carries its own role label; the role stays inside the process that
\* decrypted it.
C15_NoRoleLabelLeaves ==
    alive => endpoint_response.kind # "role"

\* C16: the process hands out a partial share of a party's role ciphertext
\* only for that party's own reveal: never a share of its own role
\* ciphertext, and none once the action rounds have begun.
C16_SharesOnlyForOwnersReveal ==
    (endpoint_response.kind = "partial" /\ endpoint_response.about # None) =>
        /\ endpoint_response.about[1] # player_index
        /\ ~round_begun

C18_KeyAndRolesFixedOnceRoundsBegin ==
    [][round_begun =>
          /\ joint_public_key' = joint_public_key
          /\ all_encrypted_roles' = all_encrypted_roles]_vars

\* C19: once state.role is set, no later request changes it.
C19_RoleIsFinal ==
    [][role # "none" => role' = role]_vars

\* C21: a key-generation round that arrives when the party already has a
\* keypair is rejected and leaves the keypair as it was.
C21_RepeatedRoundRejected ==
    [][(endpoint_response'.endpoint = "dkg_round" /\ keypair # None)
          => (endpoint_response'.status = 500 /\ keypair' = keypair)]_vars

MultKeyRounds ==
    {"generate_mult_key", "generate_keyswitchgen", "generate_multmultkey",
     "receive_mult_keys"}

\* C22: a multiplication-key round whose request names another game than
\* the party's current one is answered with an error that carries no key
\* material, and inserts nothing in the crypto context.
C22_MismatchedGameIdRejected ==
    [][(endpoint_response'.endpoint \in MultKeyRounds
           /\ endpoint_response'.game_id # game_id)
          => /\ endpoint_response'.status = 500
             /\ endpoint_response'.kind = "error"
             /\ endpoint_response'.val = <<>>
             /\ eval_mult_keys' = eval_mult_keys
             /\ keypair' = keypair]_vars

C22_Witness ==
    /\ endpoint_response.endpoint = "receive_mult_keys"
    /\ KeysInitialized
    /\ endpoint_response.game_id # None
    /\ endpoint_response.game_id # game_id
    /\ endpoint_response.mult_keys = AllMultKeys
    /\ endpoint_response.status = 500

\* The parties whose fragment a mult_keys list carries.
PostedTags(mult_keys) == {mult_keys[i].by : i \in DOMAIN mult_keys}

\* C23: /receive_mult_keys with a readable list succeeds even when the
\* party already holds some of its fragments: afterwards the context holds
\* what it held and every fragment of the list, and keys_received counts the
\* fragments that were new.
C23_HeldFragmentSkipped ==
    [][(/\ endpoint_response'.endpoint = "receive_mult_keys"
        /\ cc # None
        /\ endpoint_response'.game_id = game_id
        /\ \A i \in DOMAIN endpoint_response'.mult_keys :
              endpoint_response'.mult_keys[i].kind = "eval_mult_key")
          => /\ endpoint_response'.status = 200
             /\ eval_mult_keys' =
                   eval_mult_keys \cup PostedTags(endpoint_response'.mult_keys)
             /\ endpoint_response'.val =
                   Cardinality(PostedTags(endpoint_response'.mult_keys) \ eval_mult_keys)]_vars

C23_Witness ==
    /\ endpoint_response.endpoint = "receive_mult_keys"
    /\ endpoint_response.status = 200
    /\ endpoint_response.mult_keys = AllMultKeys
    /\ endpoint_response.val = NumPlayers - 1
    /\ eval_mult_keys = Parties

\* The endpoints that use the crypto context or the keypair.
CryptoOperations ==
    MultKeyRounds \cup {"partial_decrypt", "investigate_parallel", "relay_decrypt",
                        "get_eval_mult_key", "complete_role_decryption"}

\* The request is answered with an error and no field of the party changes.
FailsAndChangesNothing ==
    /\ endpoint_response'.status = 500
    /\ UNCHANGED <<stateVars, game_id, cc, keypair, eval_mult_keys>>

\* C24: every crypto operation requested while the crypto context or the
\* keypair is missing is answered with an error and changes no field of the
\* party.
C24_FailsBeforeKeys ==
    [][(endpoint_response'.endpoint \in CryptoOperations /\ ~KeysInitialized)
          => FailsAndChangesNothing]_vars

\* ------------------------------------------------------- key generation
\* A key-generation run over all parties, each running /dkg_round
\* (player.py:176-207) after /dkg_setup.  The host asks every party once,
\* in an order of its choice, with round number 1 or 2 and with no previous
\* key or the key the last call returned; then it sends the last key to
\* every party as the joint public key (/init).
DkgCalled == {dkg_log[i].party : i \in DOMAIN dkg_log}

DkgLastAnswer == IF dkg_log = <<>> THEN None ELSE Some(dkg_log[Len(dkg_log)].answer)

\* The answer of a /dkg_round call that ended in HTTP 500.
DkgRoundError == [b64 |-> [kind |-> "error", chain |-> <<>>]]

DkgRoundAt(p, round_number, prev) ==
    /\ p \notin DkgCalled
    /\ prev \in {None, DkgLastAnswer}
    /\ IF prev = None /\ round_number # 1
       THEN /\ dkg_log' = Append(dkg_log, [party |-> p, round_number |-> round_number,
                                           prev |-> prev, answer |-> DkgRoundError])
            /\ UNCHANGED dkg_keys
       ELSE LET kp == dkg_round_keypair(round_number, prev, p)
            IN /\ dkg_keys' = [dkg_keys EXCEPT ![p] = Some(kp)]
               /\ dkg_log' = Append(dkg_log, [party |-> p, round_number |-> round_number,
                                              prev |-> prev, answer |-> dkg_round_answer(kp)])
    /\ UNCHANGED dkg_view
    /\ UNCHANGED <<roster, stateVars, roundVars, relayVars, setupVars, overlapVars, sideVars>>

\* The host sends the key the last party returned to party p (/init).
DkgBroadcast(p) ==
    /\ Len(dkg_log) = NumPlayers
    /\ dkg_view[p] = None
    /\ dkg_view' = [dkg_view EXCEPT ![p] = Some(deserialize_public_key(DkgLastAnswer[1]))]
    /\ UNCHANGED <<dkg_keys, dkg_log>>
    /\ UNCHANGED <<roster, stateVars, roundVars, relayVars, setupVars, overlapVars, sideVars>>

DkgInit == RelayInit

DkgNext ==
    \/ \E p \in Parties, rn \in {1, 2}, prev \in {None, DkgLastAnswer} : DkgRoundAt(p, rn, prev)
    \/ \E p \in Parties : DkgBroadcast(p)

DkgSpec == DkgInit /\ [][DkgNext]_vars

\* The host ran the rounds in join order: party 0 first, as round 1 and
\* without a key, then every party with the key the party before it returned.
DkgRunInJoinOrder ==
    /\ Len(dkg_log) = NumPlayers
    /\ \A i \in DOMAIN dkg_log : dkg_log[i].party = i - 1
    /\ dkg_log[1].round_number = 1
    /\ dkg_log[1].prev = None
    /\ \A i \in 2 .. NumPlayers : dkg_log[i].prev = Some(dkg_log[i - 1].answer)

\* C20: after a key-generation run in join order, the lead's key was
\* generated without an input key, every later party's key is joined to
\* the key the party before it returned, the last party's key joins all N
\* parties, and every party that holds a joint public key holds that one.
C20_JoinOrderYieldsOneJointKey ==
    DkgRunInJoinOrder =>
        /\ dkg_keys[0] = Some(dkg_keygen_lead(0))
        /\ \A p \in Agents :
              dkg_keys[p] = Some(dkg_keygen_join(dkg_keys[p - 1][1].publicKey, p))
        /\ deserialize_public_key(DkgLastAnswer[1]) = JoinedKey(NumPlayers - 1)
        /\ \A p \in Parties : dkg_view[p] # None => dkg_view[p][1] = dkg_keys[NumPlayers - 1][1].publicKey

C20_Witness ==
    /\ DkgRunInJoinOrder
    /\ \A p \in Parties : dkg_view[p] # None

\* ------------------------------------------------- overlapping requests
\* One agent process whose host does not wait: a second /request_action or
\* a /chat/phase request may arrive while a first request_action waits at
\* one of its awaits.  The handlers are coroutines of one event loop: a step
\* of a handler runs from one await to the next, and the steps of the two
\* handlers interleave.  The lock retries of call_ai_with_retry repeat the
\* same await and are not told apart here.
OverlapPhases == {"vote", "night", "chat"}

OverlapFrame ==
    UNCHANGED <<roster, player_index, role, joint_public_key, all_encrypted_roles,
                my_encrypted_role, pc, request, request_survivors, attempt, inv, response,
                first_call, accepted, forced_abstain, sent_investigate, fused, relayVars,
                setupVars, dkgVars, sideVars>>

\* The return of request_action with the triple built from the target.
\* decided records what the handler's own steps made of its request: the
\* target its decision source had accepted, or None once the handler itself
\* read or forced an abstention.
OverlapAnswer(h, target) ==
    [handlers EXCEPT ![h].st = "done",
                     ![h].decided = IF target = None THEN None ELSE @,
                     ![h].response =
                         ActionResponse(PhaseVectors(handlers[h].phase, target),
                                        handlers[h].phase)]

\* A request_action handler is waiting at one of its awaits.
InProgress(h) == handlers[h].st \in {"sleeping", "initial", "reminder"}

\* The handlers once handler h has started and reached `st` with `resp`.
\* alone records that no other handler was in progress while h ran: it is
\* withdrawn from both when h starts during the other's wait.
OverlapStarted(h, phase, st, resp) ==
    [g \in Slots |->
        IF g = h
        THEN [st |-> st, phase |-> phase, decided |-> None, response |-> resp,
              alone |-> \A o \in Slots \ {h} : ~InProgress(o)]
        ELSE IF InProgress(g) THEN [handlers[g] EXCEPT !.alone = FALSE]
        ELSE handlers[g]]

ResetActionStateKeeping ==
    UNCHANGED <<action_submitted, pending_action_target>>

\* state.action_submitted = False; state.pending_action_target = None
ResetActionState ==
    /\ action_submitted' = FALSE
    /\ pending_action_target' = None

\* request_action up to its first await or, without one, to its return.
OverlapRequestAction(h, phase, survivors) ==
    /\ handlers[h].st = "idle"
    /\ role # "none"
    /\ ResetActionState
    /\ current_phase' = phase
    /\ alive' = StillAlive(survivors)
    /\ IF ~StillAlive(survivors)
       THEN /\ handlers' = OverlapStarted(h, phase, "done",
                                          ActionResponse(dead_player_vectors, phase))
            /\ UNCHANGED tools
       ELSE IF phase = "night" /\ role = "citizen"
       THEN /\ handlers' = OverlapStarted(h, phase, "sleeping", NoResponse)
            /\ UNCHANGED tools
       ELSE IF phase \in {"vote", "night"}
       THEN /\ handlers' = OverlapStarted(h, phase, "initial", NoResponse)
            /\ tools' = create_agent_tools(phase, role)
       ELSE /\ handlers' = OverlapStarted(h, phase, "done",
                                          ActionResponse(handle_chat_phase_vectors, phase))
            /\ tools' = create_agent_tools(phase, role)
    /\ UNCHANGED decoy_task
    /\ OverlapFrame

\* The citizen's night delay is over: handle_night_phase returns None and
\* request_action builds the triple.
OverlapSleepEnds(h) ==
    /\ handlers[h].st = "sleeping"
    /\ pending_action_target' = None
    /\ action_submitted' = TRUE
    /\ decoy_task' = TRUE
    /\ handlers' = OverlapAnswer(h, None)
    /\ UNCHANGED <<alive, current_phase, tools>>
    /\ OverlapFrame

\* Whether the named action tool accepts target t.
ToolAccepts(tool, t) ==
    CASE tool = "submit_vote" -> submit_vote_accepts(t)
      [] tool = "mafia_kill" -> mafia_kill_accepts(t)
      [] tool = "doctor_heal" -> doctor_heal_accepts(t)
      [] OTHER -> FALSE

\* The decision source of handler h calls an action tool: one the handler
\* installed, or one installed since.
OverlapToolCall(h, tool, t) ==
    /\ handlers[h].st \in {"initial", "reminder"}
    /\ tool \in (create_agent_tools(handlers[h].phase, role) \cup tools)
                   \ {"police_investigate"}
    /\ IF ~alive \/ action_submitted
       THEN UNCHANGED <<pending_action_target, action_submitted, handlers>>
       ELSE /\ action_submitted' = TRUE
            /\ pending_action_target' = IF ToolAccepts(tool, t) THEN Some(t) ELSE None
            /\ handlers' = [handlers EXCEPT ![h].decided =
                               IF ToolAccepts(tool, t) THEN Some(t) ELSE None]
    /\ UNCHANGED <<alive, current_phase, tools, decoy_task>>
    /\ OverlapFrame

\* A Runner.run call of handler h returns: call_ai_with_retry goes on to the
\* reminder, or returns and the handler builds its triple from
\* state.pending_action_target.
OverlapRunnerReturns(h) ==
    /\ handlers[h].st \in {"initial", "reminder"}
    /\ IF action_submitted
       THEN /\ handlers' = OverlapAnswer(h, pending_action_target)
            /\ UNCHANGED pending_action_target
       ELSE IF handlers[h].st = "initial"
       THEN /\ handlers' = [handlers EXCEPT ![h].st = "reminder"]
            /\ UNCHANGED pending_action_target
       ELSE /\ pending_action_target' = None
            /\ handlers' = OverlapAnswer(h, None)
    /\ UNCHANGED <<alive, current_phase, action_submitted, tools, decoy_task>>
    /\ OverlapFrame

\* A Runner.run call of handler h raises: the initial call's error reaches
\* request_action's except branch, the reminder's is caught.
OverlapRunnerRaises(h) ==
    /\ handlers[h].st \in {"initial", "reminder"}
    /\ IF handlers[h].st = "initial"
       THEN /\ handlers' = [handlers EXCEPT ![h].st = "done",
                                            ![h].response = HTTPException]
            /\ UNCHANGED pending_action_target
       ELSE /\ pending_action_target' = None
            /\ handlers' = OverlapAnswer(h, None)
    /\ UNCHANGED <<alive, current_phase, action_submitted, tools, decoy_task>>
    /\ OverlapFrame

\* /chat/phase with action "stop"
chat_phase_control ==
    /\ current_phase' = "vote"
    /\ UNCHANGED <<alive, pending_action_target, action_submitted, tools, decoy_task,
                   handlers>>
    /\ OverlapFrame

\* The process is player 1, a mafia, a doctor or a citizen.
OverlapInit ==
    /\ Init
    /\ player_index = 1
    /\ roster \in {RosterA, RosterB, [p \in Parties |-> "citizen"]}

OverlapNext ==
    \/ BlindRoleAssignment
    \/ CompleteRoleDecryption
    \/ \E h \in Slots, phase \in OverlapPhases, sv \in SurvivorLists :
          OverlapRequestAction(h, phase, sv)
    \/ \E h \in Slots : OverlapSleepEnds(h)
    \/ \E h \in Slots, tool \in {"submit_vote", "mafia_kill", "doctor_heal"},
          t \in ToolTargets : OverlapToolCall(h, tool, t)
    \/ \E h \in Slots : OverlapRunnerReturns(h)
    \/ \E h \in Slots : OverlapRunnerRaises(h)
    \/ chat_phase_control
    \/ SendDummyInvestigationPackets

OverlapSpec == OverlapInit /\ [][OverlapNext]_vars

\* C25: the triple a request_action returns is built from the phase of
\* that request and from the target its own decision source submitted,
\* whatever other request arrived while it waited.
C25_TripleFromOwnRequest ==
    \A h \in Slots :
        (handlers[h].st = "done" /\ handlers[h].response.kind = "triple")
            => handlers[h].response =
                   ActionResponse(PhaseVectors(handlers[h].phase, handlers[h].decided),
                                  handlers[h].phase)

\* The targets at which a vector of handler h's triple is one-hot.
OneHotIndices(h) ==
    IF handlers[h].response.kind # "triple" THEN {}
    ELSE {t \in Parties :
             \E b64 \in {handlers[h].response.vote, handlers[h].response.attack,
                          handlers[h].response.heal} :
                 Plain(b64) = OneHotPlain(NumPlayers, t)}

\* C32: no target carries over between rounds: request_action clears
\* action_submitted and pending_action_target before handling, so the
\* one-hot index of a round's triple is a target submitted during that
\* same request, never one chosen in an earlier round.
C32_NoCarryOver ==
    \A h \in Slots :
        (handlers[h].st = "done" /\ handlers[h].alone
            /\ handlers[h].response.kind = "triple")
            => \A t \in OneHotIndices(h) : handlers[h].decided = Some(t)

\* Two vote rounds one after the other: one voted for player 0, the other
\* for player 2, and each triple carries its own round's target.
C32_Witness ==
    /\ \A h \in Slots : handlers[h].st = "done" /\ handlers[h].alone
                             /\ handlers[h].phase = "vote"
    /\ \E h \in Slots : OneHotIndices(h) = {0}
    /\ \E h \in Slots : OneHotIndices(h) = {2}

\* ------------------------------------------------- concurrent tool calls
\* One agent process whose decision source answers with more than one tool
\* call: the calls run as tasks of the handler's event loop, and a call
\* that waits at an await lets the next one start.  submit_vote, mafia_kill
\* and doctor_heal have no await and run as one step; police_investigate
\* waits for the gather of _execute_police_investigation between its
\* action_submitted check and the assignment of the flag.

\* police_investigate up to the gather: refuse when dead or already
\* submitted; an invalid target is an abstention; a valid one sends the
\* requests to every peer and waits.
PoliceInvestigateBegins(c, t) ==
    /\ pc \in {"initial", "reminder"}
    /\ "police_investigate" \in tools
    /\ calls[c].st = "idle"
    /\ first_call' = IF first_call = None
                     THEN Some([tool |-> "police_investigate", target |-> t])
                     ELSE first_call
    /\ IF ~alive \/ action_submitted
       THEN /\ calls' = [calls EXCEPT ![c] = [st |-> "refused", target |-> Some(t)]]
            /\ UNCHANGED <<pending_action_target, action_submitted, sent_investigate>>
       ELSE IF police_investigate_accepts(t)
       THEN /\ calls' = [calls EXCEPT ![c] = [st |-> "awaiting", target |-> Some(t)]]
            /\ sent_investigate' = sent_investigate \cup Others
            /\ UNCHANGED <<pending_action_target, action_submitted>>
       ELSE /\ calls' = [calls EXCEPT ![c] = [st |-> "invalid", target |-> Some(t)]]
            /\ pending_action_target' = None
            /\ action_submitted' = TRUE
            /\ UNCHANGED sent_investigate
    /\ UNCHANGED <<roster, player_index, role, alive, current_phase, joint_public_key,
                   all_encrypted_roles, my_encrypted_role>>
    /\ UNCHANGED <<pc, request, request_survivors, attempt, tools, inv, response, accepted,
                   forced_abstain, decoy_task, fused>>
    /\ UNCHANGED <<relayVars, setupVars, dkgVars, overlapVars, chatVars, noteVars, lobbyVars>>

\* The gather of call c is over: _execute_police_investigation records the
\* target and the flag, or an exception leaves it (`aborts`) and
\* police_investigate only sets the flag.
PoliceInvestigateEnds(c, aborts) ==
    /\ calls[c].st = "awaiting"
    /\ action_submitted' = TRUE
    /\ IF aborts
       THEN /\ calls' = [calls EXCEPT ![c].st = "failed"]
            /\ UNCHANGED <<pending_action_target, accepted>>
       ELSE /\ calls' = [calls EXCEPT ![c].st = "done"]
            /\ pending_action_target' = calls[c].target
            /\ accepted' = Some([tool |-> "police_investigate",
                                 target |-> calls[c].target[1]])
    /\ UNCHANGED <<roster, player_index, role, alive, current_phase, joint_public_key,
                   all_encrypted_roles, my_encrypted_role>>
    /\ UNCHANGED <<pc, request, request_survivors, attempt, tools, inv, response, first_call,
                   forced_abstain, sent_investigate, decoy_task, fused>>
    /\ UNCHANGED <<relayVars, setupVars, dkgVars, overlapVars, chatVars, noteVars, lobbyVars>>

\* The process is player 1: the police, a mafia or a doctor.
ToolCallsInit ==
    /\ Init
    /\ player_index = 1
    /\ roster \in {RosterA, RosterB, [p \in Parties |-> IF p = 1 THEN "police" ELSE "mafia"]}

ToolCallsNext ==
    \/ BlindRoleAssignment
    \/ CompleteRoleDecryption
    \/ \E ph \in Phases, sv \in SurvivorLists : RequestActionDead(ph, sv)
    \/ \E sv \in SurvivorLists : RequestActionVote(sv)
    \/ \E sv \in SurvivorLists : RequestActionNight(sv)
    \/ \E t \in ToolTargets : submit_vote(t)
    \/ \E t \in ToolTargets : mafia_kill(t)
    \/ \E t \in ToolTargets : doctor_heal(t)
    \/ \E c \in CallSlots, t \in ToolTargets : PoliceInvestigateBegins(c, t)
    \/ \E c \in CallSlots, aborts \in BOOLEAN : PoliceInvestigateEnds(c, aborts)
    \/ RunnerReturnInitial
    \/ RunnerReturnReminder
    \/ RunnerRaiseInitial
    \/ RunnerRaiseReminder

ToolCallsSpec == ToolCallsInit /\ [][ToolCallsNext]_vars

\* The calls of this round that passed police_investigate's checks and ran
\* an investigation.
InvestigationsRun == {c \in CallSlots : calls[c].st \in {"awaiting", "done", "failed"}}

\* C31: within one action round at most one action is accepted: once a
\* call has been accepted every further call of the round is refused and
\* leaves pending_action_target alone, and a police party runs at most one
\* investigation per night round, however the tool calls interleave.
C31_OneActionPerRound ==
    /\ Cardinality(InvestigationsRun) <= 1
    /\ \A c \in CallSlots :
           (calls[c].st = "done" /\ ~forced_abstain)
               => pending_action_target = calls[c].target

\* ------------------------------------------------------- the chat task
\* One agent process and its background chat task.  request_action cancels
\* the task state.chat_task refers to and waits for its end; for a chat or
\* day phase handle_chat_phase does the same again and then creates a new
\* task.  A handler runs from one await to the next; the requests of the
\* host may overlap.  What the vote and night handlers do after the
\* cancellation is followed in the other specifications: they never touch
\* state.chat_task.
ChatPhases == {"chat", "day", "vote"}

ChatFrame ==
    UNCHANGED <<roster, player_index, role, joint_public_key, all_encrypted_roles,
                my_encrypted_role, roundVars, relayVars, setupVars, dkgVars, overlapVars,
                callVars, noteVars, lobbyVars>>

\* The task has been created and has not ended.
ChatTaskLive(k) == chat_tasks[k].st \in {"created", "runner", "sleep"}

\* state.chat_task and not state.chat_task.done(), the tasks being `ts`.
ChatTaskRunning(ts) == chat_task # None /\ ts[chat_task[1]].st # "done"

\* state.chat_task.cancel() and `await state.chat_task` by handler h: the
\* task ends the next time it is resumed, and h waits for that.
CancelChatTask(ts, h) ==
    [ts EXCEPT ![chat_task[1]].cancel = TRUE,
               ![chat_task[1]].waiters = Append(@, h)]

\* No handler is about to be woken.  The event loop wakes the waiters of a
\* finished task one after the other, in the order they began to wait, and
\* before it turns to a new request or to another task.
NoWakeupPending ==
    \A k \in ChatTaskIds : chat_tasks[k].st = "done" => chat_tasks[k].waiters = <<>>

\* The tasks once the phase is neither chat nor day: every task that has
\* not ended has been told to stop.
PhaseLeft(ts) ==
    [k \in ChatTaskIds |->
        IF ts[k].st \in {"created", "runner", "sleep"} THEN [ts[k] EXCEPT !.told = TRUE]
        ELSE ts[k]]

\* The task asyncio.create_task makes next.
NextChatTask == CHOOSE k \in ChatTaskIds :
                    /\ chat_tasks[k].st = "unborn"
                    /\ \A j \in ChatTaskIds : j < k => chat_tasks[j].st # "unborn"

\* state.chat_task = asyncio.create_task(run_chat_loop()); the handler
\* returns the zero triple.
CreateChatTask(ts, h) ==
    /\ \E k \in ChatTaskIds : chat_tasks[k].st = "unborn"
    /\ chat_tasks' = [ts EXCEPT ![NextChatTask].st = "created"]
    /\ chat_task' = Some(NextChatTask)
    /\ chat_handlers' = [chat_handlers EXCEPT ![h] = IdleChatHandler]

\* handle_chat_phase: cancel a chat task that is still running and wait for
\* it, else create the new task at once.
HandleChatPhase(ts, h, phase, survivors) ==
    IF ChatTaskRunning(ts)
    THEN /\ chat_tasks' = CancelChatTask(ts, h)
         /\ chat_handlers' = [chat_handlers EXCEPT ![h] =
                [st |-> "await_chat", phase |-> phase, survivors |-> survivors,
                 task |-> chat_task[1]]]
         /\ UNCHANGED chat_task
    ELSE CreateChatTask(ts, h)

\* request_action after its cancellation block: the reset, the alive
\* status, and the dispatch on the phase.
ChatProceed(ts, h, phase, survivors) ==
    /\ ResetActionState
    /\ current_phase' = phase
    /\ alive' = StillAlive(survivors)
    /\ IF StillAlive(survivors) /\ phase \in {"chat", "day"}
       THEN HandleChatPhase(ts, h, phase, survivors)
       ELSE /\ chat_handlers' = [chat_handlers EXCEPT ![h] = IdleChatHandler]
            /\ chat_tasks' = IF phase \in {"chat", "day"} THEN ts ELSE PhaseLeft(ts)
            /\ UNCHANGED chat_task

\* request_action up to its first await or, without one, to its return.
ChatRequestAction(h, phase, survivors) ==
    /\ chat_handlers[h].st = "idle"
    /\ role # "none"
    /\ NoWakeupPending
    /\ IF ChatTaskRunning(chat_tasks)
       THEN /\ chat_tasks' = CancelChatTask(chat_tasks, h)
            /\ chat_handlers' = [chat_handlers EXCEPT ![h] =
                   [st |-> "await_action", phase |-> phase, survivors |-> survivors,
                    task |-> chat_task[1]]]
            /\ UNCHANGED <<chat_task, alive, current_phase, action_submitted,
                           pending_action_target>>
       ELSE ChatProceed(chat_tasks, h, phase, survivors)
    /\ ChatFrame

\* The tasks once the first waiter of task k has been woken.
Woken(k) == [chat_tasks EXCEPT ![k].waiters = Tail(@)]

\* The task a handler waits for has ended and it is the handler's turn:
\* `await state.chat_task` raises CancelledError, which the handler
\* catches, and the handler goes on.
ChatHandlerResumes(h) ==
    /\ chat_handlers[h].st \in {"await_action", "await_chat"}
    /\ chat_tasks[chat_handlers[h].task].st = "done"
    /\ h = Head(chat_tasks[chat_handlers[h].task].waiters)
    /\ IF chat_handlers[h].st = "await_action"
       THEN ChatProceed(Woken(chat_handlers[h].task), h, chat_handlers[h].phase,
                        chat_handlers[h].survivors)
       ELSE /\ CreateChatTask(Woken(chat_handlers[h].task), h)
            /\ UNCHANGED <<alive, current_phase, action_submitted, pending_action_target>>
    /\ ChatFrame

\* while state.current_phase in ["chat", "day"]: ... if time_left < 5: break
ChatLoopGoesOn(k) == current_phase \in {"chat", "day"} /\ ~chat_tasks[k].time_up

\* run_chat_loop is resumed: a cancelled task ends; a chat round that has
\* returned or failed (`raises`) is followed by the two-second sleep; at
\* the start and after the sleep the loop tests its condition and calls
\* the decision source again or ends.
ChatTaskStep(k, raises) ==
    /\ ChatTaskLive(k)
    /\ NoWakeupPending
    /\ raises => (chat_tasks[k].st = "runner" /\ ~chat_tasks[k].cancel)
    /\ chat_tasks' = [chat_tasks EXCEPT ![k] =
           IF @.cancel THEN EndedTask(@.waiters)
           ELSE IF @.st = "runner" THEN [@ EXCEPT !.st = "sleep"]
           ELSE IF ChatLoopGoesOn(k) THEN [@ EXCEPT !.st = "runner"]
           ELSE EndedTask(@.waiters)]
    /\ UNCHANGED <<chat_task, chat_handlers, alive, current_phase, action_submitted,
                   pending_action_target>>
    /\ ChatFrame

\* /chat/phase with action "stop", the chat tasks followed.
ChatPhaseStop ==
    /\ NoWakeupPending
    /\ current_phase' = "vote"
    /\ chat_tasks' = PhaseLeft(chat_tasks)
    /\ UNCHANGED <<chat_task, chat_handlers, alive, action_submitted,
                   pending_action_target>>
    /\ ChatFrame

\* Less than five seconds of the task's chat time remain.
ChatTimePasses(k) ==
    /\ ChatTaskLive(k)
    /\ ~chat_tasks[k].time_up
    /\ chat_tasks' = [chat_tasks EXCEPT ![k].time_up = TRUE]
    /\ UNCHANGED <<chat_task, chat_handlers, alive, current_phase, action_submitted,
                   pending_action_target>>
    /\ ChatFrame

\* The process is player 1.
ChatInit ==
    /\ Init
    /\ player_index = 1
    /\ roster = RosterA

ChatNext ==
    \/ BlindRoleAssignment
    \/ CompleteRoleDecryption
    \/ \E h \in ChatSlots, phase \in ChatPhases, sv \in SurvivorLists :
          ChatRequestAction(h, phase, sv)
    \/ \E h \in ChatSlots : ChatHandlerResumes(h)
    \/ \E k \in ChatTaskIds, raises \in BOOLEAN : ChatTaskStep(k, raises)
    \/ \E k \in ChatTaskIds : ChatTimePasses(k)
    \/ ChatPhaseStop

ChatSpec == ChatInit /\ [][ChatNext]_vars

\* C33: at most one background chat task is running per party at any
\* time, however the overlapping request_action calls interleave.
C33_OneChatTask ==
    Cardinality({k \in ChatTaskIds : ChatTaskLive(k)}) <= 1

\* A step in which the loop of task k calls the decision source once more.
StartsChatRound(k) == chat_tasks[k].st # "runner" /\ chat_tasks'[k].st = "runner"

\* C34: the background chat loop always ends: after a /chat/phase stop
\* request, after the phase has changed away from chat and day, or once
\* less than five seconds of the chat time remain, the loop starts no
\* further decision-source call.
C34_ChatLoopEnds ==
    [][\A k \in ChatTaskIds :
          StartsChatRound(k) => ~(chat_tasks[k].told \/ chat_tasks[k].time_up)]_vars

\* ---------------------------------------------------- suspicion notes
\* One agent process and its suspicion notes.  The note manager is made by
\* /complete_role_decryption, a PoliceNoteManager for the police; notes
\* holds its content from then on.  The decision source writes notes with
\* write_suspicion_note, which only the chat and day tool lists hold; a
\* police investigation records its result; request_action and
\* /death_announcement mark the dead.  A tool call runs here as one step.
SuspicionLevel == {"high", "medium", "low", "neutral", "unknown"}
PoliceSuspicionLevel ==
    SuspicionLevel \cup {"confirmed_mafia", "confirmed_not_mafia", "suspected_doctor",
                         "suspected_citizen"}

\* LEVEL_ENUM of the manager complete_role_decryption made.
LEVEL_ENUM == IF role = "police" THEN PoliceSuspicionLevel ELSE SuspicionLevel

\* SuspicionNoteManager.write_note
write_note(n, target_index, level, is_confirmed) ==
    IF target_index = player_index THEN n
    ELSE IF target_index < 0 \/ target_index >= NumPlayers THEN n
    ELSE IF target_index \in DOMAIN n /\ n[target_index].is_confirmed THEN n
    ELSE IF level \notin LEVEL_ENUM THEN n
    ELSE [n EXCEPT ![target_index] = SuspicionNote(level, is_confirmed)]

\* PoliceNoteManager.add_investigation_result
add_investigation_result(n, target_index, is_mafia) ==
    IF target_index = player_index THEN n
    ELSE IF target_index < 0 \/ target_index >= NumPlayers THEN n
    ELSE [n EXCEPT ![target_index] =
             SuspicionNote(IF is_mafia THEN "confirmed_mafia" ELSE "confirmed_not_mafia",
                           is_mafia)]

\* The level strings the decision source passes: one of both enums, two of
\* the police enum only, and one of neither.
NoteLevelInputs == {"high", "confirmed_mafia", "suspected_doctor", "confirmed_dead"}

\* The survivors lists of a request: everybody, without party 0, without
\* the process itself.
NoteSurvivorLists == {Parties, Parties \ {0}, Others}

NotesFrame ==
    UNCHANGED <<roster, player_index, role, alive, current_phase, joint_public_key,
                all_encrypted_roles, my_encrypted_role, relayVars, setupVars, dkgVars,
                overlapVars, callVars, chatVars, lobbyVars>>

\* The chat loop of the last chat or day request is calling the decision
\* source.
ChatLoopCalls ==
    /\ pc = "idle"
    /\ alive
    /\ request \in {"chat", "day"}
    /\ current_phase \in {"chat", "day"}

\* The write_suspicion_note tool
write_suspicion_note(target_index, suspicion_level) ==
    /\ ChatLoopCalls
    /\ notes' = write_note(notes, target_index, suspicion_level, FALSE)
    /\ UNCHANGED <<pending_action_target, action_submitted, roundVars>>
    /\ NotesFrame

\* police_investigate with its gather, from the checks to the recorded
\* result: replies tells which peers answered.
NotesInvestigation(t, replies) ==
    /\ RunnerActive
    /\ "police_investigate" \in tools
    /\ alive /\ ~action_submitted
    /\ police_investigate_accepts(t)
    /\ LET all_partials == AllPartials(InvestigateCiphertext(t), replies)
       IN /\ \E decrypted_vector \in fusion_decrypt(all_partials) :
                 notes' = add_investigation_result(notes, t, IsMafia(decrypted_vector))
          /\ fused' = Some(all_partials)
    /\ pending_action_target' = Some(t)
    /\ action_submitted' = TRUE
    /\ first_call' = IF first_call = None
                     THEN Some([tool |-> "police_investigate", target |-> t])
                     ELSE first_call
    /\ accepted' = Some([tool |-> "police_investigate", target |-> t])
    /\ sent_investigate' = sent_investigate \cup Others
    /\ UNCHANGED <<pc, request, request_survivors, attempt, tools, inv, response,
                   forced_abstain, decoy_task>>
    /\ NotesFrame

\* /death_announcement for one death: the player is marked dead and a note
\* of level "confirmed_dead" is written.
receive_death_announcement(p) ==
    /\ role # "none"
    /\ notes' = write_note(mark_player_dead(notes, p), p, "confirmed_dead", FALSE)
    /\ UNCHANGED <<pending_action_target, action_submitted, roundVars>>
    /\ NotesFrame

\* The process is player 1, the police in one roster and a mafia in the other.
NotesInit ==
    /\ Init
    /\ player_index = 1
    /\ roster \in {RosterA, [p \in Parties |-> IF p = 1 THEN "police" ELSE "mafia"]}

NotesNext ==
    \/ BlindRoleAssignment
    \/ CompleteRoleDecryption
    \/ \E ph \in {"night", "chat"}, sv \in NoteSurvivorLists : RequestActionDead(ph, sv)
    \/ \E sv \in NoteSurvivorLists : RequestActionNight(sv)
    \/ \E sv \in NoteSurvivorLists : RequestActionChat("chat", sv)
    \/ \E t \in ToolTargets, level \in NoteLevelInputs : write_suspicion_note(t, level)
    \/ \E t \in ToolTargets, replies \in [Others -> {"ok", "fail"}] :
          NotesInvestigation(t, replies)
    \/ \E p \in ToolTargets : receive_death_announcement(p)
    \/ RunnerReturnInitial
    \/ RunnerReturnReminder
    \/ RunnerRaiseInitial
    \/ RunnerRaiseReminder

NotesSpec == NotesInit /\ [][NotesNext]_vars

\* C35: a confirmed MAFIA investigation result cannot be updated once
\* recorded: no later operation on the notes changes the level or the
\* confirmed flag of a note of level confirmed_mafia.
C35_ConfirmedMafiaIsFinal ==
    [][\A t \in DOMAIN notes :
          (notes[t].level = "confirmed_mafia" /\ notes[t].is_confirmed)
              => (notes'[t].level = "confirmed_mafia" /\ notes'[t].is_confirmed)]_vars

\* C36: once a player has been marked dead in the notes, the note of that
\* player stays marked dead whatever operation follows.
C36_DeadStaysDead ==
    [][\A t \in DOMAIN notes : notes[t].is_dead => notes'[t].is_dead]_vars

----------------------------------------------------------------------------
(***************************************************************************)
(* The lobby (src/lobby.py): one process that starts an agent process per  *)
(* /spawn_agent request and stops one per DELETE /agent/{agent_id} or      *)
(* /shutdown_agent request.  spawned_agents maps an agent id to the        *)
(* process and the port of the agent; it is a function whose domain is the *)
(* set of tracked ids.  A process is identified by the port it listens on: *)
(* a port handed out by find_free_port is held by no running process.      *)
(* The requests are taken one at a time.  An agent process that fails at   *)
(* start-up or ends by itself is left out.                                 *)
(***************************************************************************)
LobbyFrame ==
    UNCHANGED <<roster, stateVars, roundVars, relayVars, setupVars, dkgVars, overlapVars,
                callVars, chatVars, noteVars>>

\* del spawned_agents[agent_id]
DelAgent(agent_id) ==
    [i \in DOMAIN spawned_agents \ {agent_id} |-> spawned_agents[i]]

\* spawned_agents[agent_id] = {"process": process, "port": port}
TrackAgent(agent_id, port) ==
    [i \in DOMAIN spawned_agents \cup {agent_id} |->
        IF i = agent_id THEN [process |-> port, port |-> port] ELSE spawned_agents[i]]

\* lobby.py:76: agent_id = len(spawned_agents) + 1
NextAgentId == Cardinality(DOMAIN spawned_agents) + 1

\* /spawn_agent.  started: Popen gave a process; healthy: the agent
\* answered a health check within the fifteen attempts.
spawn_agent(port, started, healthy) ==
    /\ Cardinality(DOMAIN spawned_agents) < MaxAgents
    /\ port \in LobbyPorts \ processes
    /\ IF ~started
          THEN /\ lobby_response' = [kind |-> "error", status |-> 500]
               /\ UNCHANGED <<spawned_agents, processes>>
          ELSE /\ spawned_agents' = TrackAgent(NextAgentId, port)
               /\ processes' = processes \cup {port}
               /\ lobby_response' =
                      IF healthy
                         THEN [kind |-> "spawned", agent_id |-> NextAgentId, port |-> port]
                         ELSE [kind |-> "error", status |-> 500]
    /\ LobbyFrame

\* DELETE /agent/{agent_id}
terminate_agent(agent_id) ==
    /\ IF agent_id \notin DOMAIN spawned_agents
          THEN /\ lobby_response' = [kind |-> "error", status |-> 404]
               /\ UNCHANGED <<spawned_agents, processes>>
          ELSE /\ processes' = processes \ {spawned_agents[agent_id].process}
               /\ spawned_agents' = DelAgent(agent_id)
               /\ lobby_response' = [kind |-> "terminated", agent_id |-> agent_id]
    /\ LobbyFrame

\* /shutdown_agent: the first tracked agent with the port, if any.
shutdown_agent_by_port(port) ==
    /\ LET found == {i \in DOMAIN spawned_agents : spawned_agents[i].port = port}
       IN  IF found = {}
              THEN /\ lobby_response' = [kind |-> "error", status |-> 404]
                   /\ UNCHANGED <<spawned_agents, processes>>
              ELSE LET agent_id == CHOOSE i \in found : TRUE
                   IN  /\ processes' = processes \ {spawned_agents[agent_id].process}
                       /\ spawned_agents' = DelAgent(agent_id)
                       /\ lobby_response' = [kind |-> "terminated", agent_id |-> agent_id]
    /\ LobbyFrame

\* The lobby alone: the agent process is left as it starts.
LobbyInit ==
    /\ Init
    /\ player_index = 1
    /\ roster = RosterA

LobbyNext ==
    \/ \E port \in LobbyPorts, started, healthy \in BOOLEAN : spawn_agent(port, started, healthy)
    \/ \E agent_id \in AgentIds : terminate_agent(agent_id)
    \/ \E port \in LobbyPorts : shutdown_agent_by_port(port)

LobbySpec == LobbyInit /\ [][LobbyNext]_vars

\* A /spawn_agent request is answered with an agent id in this step.
SpawnReturns ==
    /\ lobby_response' # lobby_response
    /\ lobby_response'.kind = "spawned"

\* C37: every spawn_agent returns an agent id that is not the id of an agent
\* still tracked, so a spawn never replaces the tracking entry of a running
\* agent.
C37_SpawnIdIsFresh ==
    [][SpawnReturns => lobby_response'.agent_id \notin DOMAIN spawned_agents]_vars

====
